---- MODULE Spec2Model ----
(***************************************************************************)
(* LiveChat: the connection registry (ClientRepository), the broadcast     *)
(* engine (BroadcastService) and the connection lifecycle handler          *)
(* (WebSocketHandler), as a state machine.                                 *)
(*                                                                         *)
(* A client object is a number 1..NumClients; 0 stands for a nil           *)
(* *model.Client.  The registry maps identifiers to client objects.  A     *)
(* transport write (Conn.WriteMessage) fails on a closed transport and     *)
(* otherwise succeeds or fails as the network decides: every operation     *)
(* that writes takes the set F of clients whose write the network fails.   *)
(* time.Now() is not modelled: timestamps are left out of the log entries  *)
(* and UpdateActivity is recorded as the set of clients it touched.        *)
(***************************************************************************)
EXTENDS Integers, Sequences, FiniteSets, Bags, TLC

\* ------------------------------------------------------------- bounds
NumClients == 3
NumConns == 2
NumIDs == 2
NumRooms == 2
NumMsgs == 1
MaxLogSizeCfg == 1
MaxLogSizeLog == 3
MaxInserts == 5

\* Client objects; the first NumConns of them are the connections the service and
\* the handler work with, the others exist for direct calls of the registry only.
Objs == 1..NumClients
Conns == 1..NumConns

\* The identifier of a client object (Client.ID).  Two objects may carry the
\* same identifier: objects NumIDs+1.. repeat the identifiers of the first.
IDNames == <<"c1", "c2", "c3", "c4", "c5">>
IDs == {IDNames[i] : i \in 1..NumIDs}
ClientID(c) == IDNames[((c - 1) % NumIDs) + 1]

RoomNames == <<"lobby", "global", "dev", "ops">>
Rooms == {RoomNames[i] : i \in 1..NumRooms}
NoRoom == ""
GlobalKey == "global"

MsgNames == <<"hi", "hi2", "hi3">>
UserMsgs == {MsgNames[i] : i \in 1..NumMsgs}
EmptyMsg == ""

\* MessageType
TextMessage == 0
SystemMessage == 1
ErrorMessage == 2

\* ChatMessage (Sender is never set by the service; Timestamp is left out)
ChatMessage(type, content, roomID) ==
    [Type |-> type, Content |-> content, RoomID |-> roomID]

\* The notification texts
NewUserText == "new user joined"
JoinedText == "joined"
LeftText == "left"

VARIABLES
    clients,      \* ClientRepository.clients: identifier -> client object
    RoomID,       \* Client.RoomID of every client object
    IsActive,     \* Client.IsActive of every client object
    conn,         \* the transport of every client object: none, open, closed
    messageLog,   \* BroadcastService.messageLog: room key -> sequence of ChatMessage
    maxLogSize,   \* BroadcastService.maxLogSize
    pc,           \* where the handler of every connection is: idle, open, closed
    last,         \* the last operation: its arguments, result and the calls it made
    inserted,     \* history: every message handed to logMessage, in order
    threads,      \* (SpecConcurrent) where the broadcast run by every read loop stands
    held,         \* (SpecCallers, SpecHistory) what a caller holds of GetAll and GetMessageHistory
    logCap,       \* (SpecHistory) room key -> free cells behind the log in its backing array
    readDeadline, \* seconds left of the read deadline of every connection
    sinceFrame,   \* history: seconds since the last frame read from every connection
    callers       \* (SpecRegistry) where the registry call of every concurrent caller stands

vars == <<clients, RoomID, IsActive, conn, messageLog, maxLogSize, pc, last, inserted,
          threads, held, logCap, readDeadline, sinceFrame, callers>>

\* conn.SetReadDeadline(time.Now().Add(60 * time.Second)), in seconds
ReadDeadline == 60

\* time.NewTicker(30 * time.Second) of the ping sender, in seconds
PingPeriod == 30

\* ------------------------------------------------------------- the state as a record
\* calls: the service calls made so far by the running operation;
\* reported: the errors handed to errorHandler by the running operation;
\* touched: the clients whose LastActive the running operation has updated;
\* cur: the writes of the running call, and the message log as it stood when the
\* call wrote (seen; empty while the call has written nothing).
NoWrites == [written |-> {}, failed |-> {}, seen |-> <<>>]

St ==
    [clients |-> clients, RoomID |-> RoomID, IsActive |-> IsActive, conn |-> conn,
     messageLog |-> messageLog, maxLogSize |-> maxLogSize,
     calls |-> <<>>, reported |-> EmptyBag, touched |-> {}, cur |-> NoWrites, err |-> "nil"]

\* ------------------------------------------------------------- model.Client
NewClient(s, c, roomID) ==
    [s EXCEPT !.RoomID[c] = roomID, !.IsActive[c] = TRUE, !.conn[c] = "open"]

SetRoomID(s, c, roomID) == [s EXCEPT !.RoomID[c] = roomID]

\* a variant that also marks the client active again
UpdateActivityReactivates(s, c) ==
    [s EXCEPT !.touched = @ \cup {c}, !.IsActive[c] = TRUE]

UpdateActivity(s, c) == [s EXCEPT !.touched = @ \cup {c}]

Deactivate(s, c) == [s EXCEPT !.IsActive[c] = FALSE]

\* variant of ConnClose: Close returns and leaves the transport as it was
ConnCloseLeavesOpen(s, c) == s

ConnClose(s, c) == [s EXCEPT !.conn[c] = "closed"]

\* ------------------------------------------------------------- ClientRepository
AddOverwrites(s, c) ==
    IF c = 0 THEN [s EXCEPT !.err = "ErrNilClient"]
    ELSE [s EXCEPT !.clients = [i \in (DOMAIN s.clients) \cup {ClientID(c)} |->
                                   IF i = ClientID(c) THEN c ELSE s.clients[i]],
                   !.err = IF ClientID(c) \in DOMAIN s.clients
                           THEN "ErrClientExists" ELSE "nil"]

Add(s, c) ==
    IF c = 0 THEN [s EXCEPT !.err = "ErrNilClient"]
    ELSE IF ClientID(c) \in DOMAIN s.clients THEN [s EXCEPT !.err = "ErrClientExists"]
    ELSE [s EXCEPT !.clients = [i \in (DOMAIN s.clients) \cup {ClientID(c)} |->
                                   IF i = ClientID(c) THEN c ELSE s.clients[i]],
                   !.err = "nil"]

\* (mutant) removing an absent identifier is not an error
RemoveIgnoresMissing(s, id) ==
    [s EXCEPT !.clients = [i \in (DOMAIN s.clients) \ {id} |-> s.clients[i]],
              !.err = "nil"]

Remove(s, id) ==
    IF id \notin DOMAIN s.clients THEN [s EXCEPT !.err = "ErrClientNotFound"]
    ELSE [s EXCEPT !.clients = [i \in (DOMAIN s.clients) \ {id} |-> s.clients[i]],
                   !.err = "nil"]

Get(s, id) ==
    IF id \notin DOMAIN s.clients THEN [client |-> 0, err |-> "ErrClientNotFound"]
    ELSE [client |-> s.clients[id], err |-> "nil"]

\* (mutant) the registry's own map is returned
GetAllReturnsInternal(s) == [map |-> s.clients, fresh |-> FALSE]

\* The returned map is a new one (fresh), filled from the registry's
GetAll(s) == [map |-> [i \in DOMAIN s.clients |-> s.clients[i]], fresh |-> TRUE]

\* a variant without the test of IsActive
GetActiveClientsAll(s) == {s.clients[i] : i \in DOMAIN s.clients}

GetActiveClients(s) == {s.clients[i] : i \in {j \in DOMAIN s.clients : s.IsActive[s.clients[j]]}}

Count(s) == Cardinality(DOMAIN s.clients)

\* a variant that leaves one entry of a registry with several behind
ClearLeavesOne(s) ==
    IF Cardinality(DOMAIN s.clients) <= 1 THEN [s EXCEPT !.clients = <<>>, !.err = "nil"]
    ELSE LET id == CHOOSE i \in DOMAIN s.clients : TRUE
         IN [s EXCEPT !.clients = [i \in {id} |-> s.clients[i]], !.err = "nil"]

Clear(s) == [s EXCEPT !.clients = <<>>, !.err = "nil"]

\* ------------------------------------------------------------- BroadcastService
\* The record of one finished service call, appended to the calls of the operation.
Return(s, op, target, msg, ret) ==
    [s EXCEPT !.calls = Append(@, [op |-> op, target |-> target, msg |-> msg, ret |-> ret,
                                   written |-> s.cur.written, failed |-> s.cur.failed,
                                   seen |-> s.cur.seen]),
              !.cur = NoWrites,
              !.err = ret]

LogKey(roomID) == IF roomID = NoRoom THEN GlobalKey ELSE roomID

\* (mutant) a full log drops the new entry instead of the oldest
logMessageDropsNewest(s, msg) ==
    LET roomID == LogKey(msg.RoomID)
        old == IF roomID \in DOMAIN s.messageLog THEN s.messageLog[roomID] ELSE <<>>
        appended == Append(old, msg)
        kept == IF Len(appended) > s.maxLogSize THEN old ELSE appended
    IN [s EXCEPT !.messageLog = [k \in (DOMAIN s.messageLog) \cup {roomID} |->
                                    IF k = roomID THEN kept ELSE s.messageLog[k]]]

logMessage(s, msg) ==
    LET roomID == LogKey(msg.RoomID)
        old == IF roomID \in DOMAIN s.messageLog THEN s.messageLog[roomID] ELSE <<>>
        appended == Append(old, msg)
        kept == IF Len(appended) > s.maxLogSize THEN Tail(appended) ELSE appended
    IN [s EXCEPT !.messageLog = [k \in (DOMAIN s.messageLog) \cup {roomID} |->
                                    IF k = roomID THEN kept ELSE s.messageLog[k]]]

GetMessageHistory(s, roomID) ==
    IF LogKey(roomID) \in DOMAIN s.messageLog THEN s.messageLog[LogKey(roomID)] ELSE <<>>

GetClientsInRoom(s, roomID) == {c \in GetActiveClients(s) : s.RoomID[c] = roomID}

\* (mutant) the failed client is reported and closed but stays active
handleClientErrorKeepsActive(s, c, err) ==
    LET reported == [s EXCEPT !.reported = @ (+) SetToBag({[client |-> ClientID(c), cause |-> err]})]
    IN ConnClose(reported, c)

\* a variant that deactivates the client and leaves its transport open
handleClientErrorKeepsOpen(s, c, err) ==
    LET reported == [s EXCEPT !.reported = @ (+) SetToBag({[client |-> ClientID(c), cause |-> err]})]
    IN Deactivate(reported, c)

\* a variant that deactivates every registered client of the failing client's room
handleClientErrorDropsRoom(s, c, err) ==
    LET reported == [s EXCEPT !.reported = @ (+) SetToBag({[client |-> ClientID(c), cause |-> err]})]
        room == {s.clients[id] : id \in {i \in DOMAIN s.clients : s.RoomID[s.clients[i]] = s.RoomID[c]}}
    IN ConnClose([reported EXCEPT !.IsActive = [x \in DOMAIN @ |-> IF x \in room \cup {c} THEN FALSE ELSE @[x]]], c)

handleClientError(s, c, err) ==
    LET reported == [s EXCEPT !.reported = @ (+) SetToBag({[client |-> ClientID(c), cause |-> err]})]
    IN ConnClose(Deactivate(reported, c), c)

\* Conn.WriteMessage: fails on a transport that is not open, and where the network fails it.
WriteFails(s, c, F) == s.conn[c] # "open" \/ c \in F

\* One iteration of a fan-out loop: the write to c and what follows it.
WriteTo(s, c, F) ==
    LET attempted == [s EXCEPT !.cur.written = @ \cup {c}, !.cur.seen = s.messageLog]
    IN IF WriteFails(s, c, F)
       THEN handleClientError([attempted EXCEPT !.cur.failed = @ \cup {c}], c, "WriteError")
       ELSE UpdateActivity(attempted, c)

\* (mutant) the loop returns at the first failed write
RECURSIVE FanOutAborts(_, _, _)
FanOutAborts(s, targets, F) ==
    IF targets = {} THEN s
    ELSE LET c == CHOOSE x \in targets : TRUE
         IN IF WriteFails(s, c, F) THEN WriteTo(s, c, F)
            ELSE FanOutAborts(WriteTo(s, c, F), targets \ {c}, F)

RECURSIVE FanOut(_, _, _)
FanOut(s, targets, F) ==
    IF targets = {} THEN s
    ELSE LET c == CHOOSE x \in targets : TRUE
         IN FanOut(WriteTo(s, c, F), targets \ {c}, F)

\* (mutant) the message is logged before the active clients are counted
BroadcastMessageLogsFirst(s, message, F) ==
    IF message = EmptyMsg THEN Return(s, "BroadcastMessage", NoRoom, message, "ErrEmptyMessage")
    ELSE LET active == GetActiveClients(s)
             logged == logMessage(s, ChatMessage(TextMessage, message, NoRoom))
         IN IF active = {} THEN Return(logged, "BroadcastMessage", NoRoom, message, "ErrNoClients")
            ELSE Return(FanOut(logged, active, F), "BroadcastMessage", NoRoom, message, "nil")

\* (mutant) only the clients that are in no room are written
BroadcastMessageSkipsRooms(s, message, F) ==
    IF message = EmptyMsg THEN Return(s, "BroadcastMessage", NoRoom, message, "ErrEmptyMessage")
    ELSE LET active == GetActiveClients(s)
         IN IF active = {} THEN Return(s, "BroadcastMessage", NoRoom, message, "ErrNoClients")
            ELSE LET logged == logMessage(s, ChatMessage(TextMessage, message, NoRoom))
                 IN Return(FanOut(logged, {c \in active : s.RoomID[c] = NoRoom}, F),
                           "BroadcastMessage", NoRoom, message, "nil")

BroadcastMessage(s, message, F) ==
    IF message = EmptyMsg THEN Return(s, "BroadcastMessage", NoRoom, message, "ErrEmptyMessage")
    ELSE LET active == GetActiveClients(s)
         IN IF active = {} THEN Return(s, "BroadcastMessage", NoRoom, message, "ErrNoClients")
            ELSE LET logged == logMessage(s, ChatMessage(TextMessage, message, NoRoom))
                 IN Return(FanOut(logged, active, F), "BroadcastMessage", NoRoom, message, "nil")

\* (mutant) the members are counted before the message is logged
BroadcastToRoomCountsFirst(s, roomID, message, F) ==
    IF message = EmptyMsg THEN Return(s, "BroadcastToRoom", roomID, message, "ErrEmptyMessage")
    ELSE IF roomID = NoRoom THEN Return(s, "BroadcastToRoom", roomID, message, "ErrEmptyRoomID")
    ELSE LET active == GetActiveClients(s)
             roomClients == {c \in active : s.RoomID[c] = roomID}
         IN IF active = {} THEN Return(s, "BroadcastToRoom", roomID, message, "ErrNoClients")
            ELSE IF roomClients = {}
            THEN Return(s, "BroadcastToRoom", roomID, message, "ErrNoClientsInRoom")
            ELSE LET logged == logMessage(s, ChatMessage(TextMessage, message, roomID))
                 IN Return(FanOut(logged, roomClients, F), "BroadcastToRoom", roomID, message, "nil")

\* (mutant) the room filter is missing: every active client is written
BroadcastToRoomNoFilter(s, roomID, message, F) ==
    IF message = EmptyMsg THEN Return(s, "BroadcastToRoom", roomID, message, "ErrEmptyMessage")
    ELSE IF roomID = NoRoom THEN Return(s, "BroadcastToRoom", roomID, message, "ErrEmptyRoomID")
    ELSE LET active == GetActiveClients(s)
         IN IF active = {} THEN Return(s, "BroadcastToRoom", roomID, message, "ErrNoClients")
            ELSE LET logged == logMessage(s, ChatMessage(TextMessage, message, roomID))
                     sent == FanOut(logged, active, F)
                 IN Return(sent, "BroadcastToRoom", roomID, message, "nil")

\* a variant that writes to the room's clients first and logs the message afterwards
BroadcastToRoomWritesFirst(s, roomID, message, F) ==
    IF message = EmptyMsg THEN Return(s, "BroadcastToRoom", roomID, message, "ErrEmptyMessage")
    ELSE IF roomID = NoRoom THEN Return(s, "BroadcastToRoom", roomID, message, "ErrEmptyRoomID")
    ELSE LET active == GetActiveClients(s)
         IN IF active = {} THEN Return(s, "BroadcastToRoom", roomID, message, "ErrNoClients")
            ELSE LET roomClients == {c \in active : s.RoomID[c] = roomID}
                     sent == FanOut(s, roomClients, F)
                     logged == logMessage(sent, ChatMessage(TextMessage, message, roomID))
                 IN Return(logged, "BroadcastToRoom", roomID, message,
                           IF roomClients = {} THEN "ErrNoClientsInRoom" ELSE "nil")

BroadcastToRoom(s, roomID, message, F) ==
    IF message = EmptyMsg THEN Return(s, "BroadcastToRoom", roomID, message, "ErrEmptyMessage")
    ELSE IF roomID = NoRoom THEN Return(s, "BroadcastToRoom", roomID, message, "ErrEmptyRoomID")
    ELSE LET active == GetActiveClients(s)
         IN IF active = {} THEN Return(s, "BroadcastToRoom", roomID, message, "ErrNoClients")
            ELSE LET logged == logMessage(s, ChatMessage(TextMessage, message, roomID))
                     roomClients == {c \in active : s.RoomID[c] = roomID}
                     sent == FanOut(logged, roomClients, F)
                 IN Return(sent, "BroadcastToRoom", roomID, message,
                           IF roomClients = {} THEN "ErrNoClientsInRoom" ELSE "nil")

\* (mutant) the target's IsActive is not looked at
SendPrivateMessageToInactive(s, targetID, message, F) ==
    IF message = EmptyMsg THEN Return(s, "SendPrivateMessage", targetID, message, "ErrEmptyMessage")
    ELSE LET got == Get(s, targetID)
         IN IF got.err # "nil" THEN Return(s, "SendPrivateMessage", targetID, message, got.err)
            ELSE LET sent == WriteTo(s, got.client, F)
                 IN Return(sent, "SendPrivateMessage", targetID, message,
                           IF WriteFails(s, got.client, F) THEN "WriteError" ELSE "nil")

\* a variant that looks the target up before it looks at the message
SendPrivateMessageLooksUpFirst(s, targetID, message, F) ==
    LET got == Get(s, targetID)
    IN IF got.err # "nil" THEN Return(s, "SendPrivateMessage", targetID, message, got.err)
       ELSE IF message = EmptyMsg
            THEN Return(s, "SendPrivateMessage", targetID, message, "ErrEmptyMessage")
       ELSE IF ~s.IsActive[got.client]
            THEN Return(s, "SendPrivateMessage", targetID, message, "ErrInactive")
       ELSE LET sent == WriteTo(s, got.client, F)
            IN Return(sent, "SendPrivateMessage", targetID, message,
                      IF WriteFails(s, got.client, F) THEN "WriteError" ELSE "nil")

SendPrivateMessage(s, targetID, message, F) ==
    IF message = EmptyMsg THEN Return(s, "SendPrivateMessage", targetID, message, "ErrEmptyMessage")
    ELSE LET got == Get(s, targetID)
         IN IF got.err # "nil" THEN Return(s, "SendPrivateMessage", targetID, message, got.err)
            ELSE IF ~s.IsActive[got.client]
                 THEN Return(s, "SendPrivateMessage", targetID, message, "ErrInactive")
            ELSE LET sent == WriteTo(s, got.client, F)
                 IN Return(sent, "SendPrivateMessage", targetID, message,
                           IF WriteFails(s, got.client, F) THEN "WriteError" ELSE "nil")

\* a variant that broadcasts the notification without the system entry of its own
AddClientSkipsLog(s, c, F) ==
    IF c = 0 THEN Return(s, "AddClient", NoRoom, EmptyMsg, "ErrNilClient")
    ELSE LET added == Add(s, c)
         IN IF added.err # "nil" THEN Return(added, "AddClient", NoRoom, EmptyMsg, added.err)
            ELSE IF s.RoomID[c] # NoRoom
                 THEN Return(BroadcastToRoom(added, s.RoomID[c], NewUserText, F),
                             "AddClient", NoRoom, EmptyMsg, "nil")
                 ELSE Return(added, "AddClient", NoRoom, EmptyMsg, "nil")

\* a variant that announces a client without a room to every active client
AddClientAnnouncesAll(s, c, F) ==
    IF c = 0 THEN Return(s, "AddClient", NoRoom, EmptyMsg, "ErrNilClient")
    ELSE LET added == Add(s, c)
         IN IF added.err # "nil" THEN Return(added, "AddClient", NoRoom, EmptyMsg, added.err)
            ELSE IF s.RoomID[c] # NoRoom
                 THEN LET logged == logMessage(added, ChatMessage(SystemMessage, NewUserText, s.RoomID[c]))
                          told == BroadcastToRoom(logged, s.RoomID[c], NewUserText, F)
                      IN Return(told, "AddClient", NoRoom, EmptyMsg, "nil")
                 ELSE Return(BroadcastMessage(added, NewUserText, F),
                             "AddClient", NoRoom, EmptyMsg, "nil")

AddClient(s, c, F) ==
    IF c = 0 THEN Return(s, "AddClient", NoRoom, EmptyMsg, "ErrNilClient")
    ELSE LET added == Add(s, c)
         IN IF added.err # "nil" THEN Return(added, "AddClient", NoRoom, EmptyMsg, added.err)
            ELSE IF s.RoomID[c] # NoRoom
                 THEN LET logged == logMessage(added, ChatMessage(SystemMessage, NewUserText, s.RoomID[c]))
                          told == BroadcastToRoom(logged, s.RoomID[c], NewUserText, F)
                      IN Return(told, "AddClient", NoRoom, EmptyMsg, "nil")
                 ELSE Return(added, "AddClient", NoRoom, EmptyMsg, "nil")

RemoveClient(s, clientID) ==
    LET removed == Remove(s, clientID)
    IN Return(removed, "RemoveClient", clientID, EmptyMsg, removed.err)

\* ------------------------------------------------------------- WebSocketHandler
\* An inbound text frame: its bytes (raw) and what json.Unmarshal makes of it.
PlainFrame(text) == [raw |-> text, json |-> FALSE, Type |-> "", Target |-> "", Content |-> ""]
JsonFrame(type, target, content) ==
    [raw |-> "{" \o type \o "," \o target \o "," \o content \o "}", json |-> TRUE,
     Type |-> type, Target |-> target, Content |-> content]

\* Client.UserName, from the username query parameter; the first connection gives none
UserNames == <<"", "bob", "eve", "dan", "kim">>
UserName(c) == UserNames[c]
JoinedMsg(c) == JoinedText \o UserName(c)
LeftMsg(c) == LeftText \o UserName(c)
\* The private message as marshalled: type, content, from, time
PrivateMsg(c, content) == "private," \o content \o "," \o UserName(c) \o ",now"

\* (mutant) the content is sent on as it came, without the sender's name
handlePrivateMessageUnwrapped(s, c, payload, F) ==
    SendPrivateMessage(s, payload.Target, payload.Content, F)

handlePrivateMessage(s, c, payload, F) ==
    SendPrivateMessage(s, payload.Target, PrivateMsg(c, payload.Content), F)

\* (mutant) the room field is cleared before the notification is broadcast
handleLeaveRoomClearsFirst(s, c, F) ==
    IF s.RoomID[c] = NoRoom THEN s
    ELSE BroadcastToRoom(SetRoomID(s, c, NoRoom), s.RoomID[c], LeftMsg(c), F)

handleLeaveRoom(s, c, F) ==
    IF s.RoomID[c] = NoRoom THEN s
    ELSE SetRoomID(BroadcastToRoom(s, s.RoomID[c], LeftMsg(c), F), c, NoRoom)

\* (mutant) the new room is set before the old one is left
handleJoinRoomSetsFirst(s, c, roomID, F1, F2) ==
    LET moved == SetRoomID(s, c, roomID)
        left == IF s.RoomID[c] # NoRoom THEN handleLeaveRoom(moved, c, F1) ELSE moved
    IN BroadcastToRoom(SetRoomID(left, c, roomID), roomID, JoinedMsg(c), F2)

handleJoinRoom(s, c, roomID, F1, F2) ==
    LET left == IF s.RoomID[c] # NoRoom THEN handleLeaveRoom(s, c, F1) ELSE s
    IN BroadcastToRoom(SetRoomID(left, c, roomID), roomID, JoinedMsg(c), F2)

\* (mutant) a frame that is no control message goes to every client, room or not
processTextMessageToAll(s, c, frame, F1, F2) ==
    IF frame.json /\ frame.Type = "private" /\ frame.Target # ""
    THEN handlePrivateMessage(s, c, frame, F1)
    ELSE IF frame.json /\ frame.Type = "join_room" /\ frame.Target # ""
    THEN handleJoinRoom(s, c, frame.Target, F1, F2)
    ELSE IF frame.json /\ frame.Type = "leave_room"
    THEN handleLeaveRoom(s, c, F1)
    ELSE BroadcastMessage(s, frame.raw, F1)

\* a variant that broadcasts the content field of an envelope it does not recognize
processTextMessageSendsContent(s, c, frame, F1, F2) ==
    IF frame.json /\ frame.Type = "private" /\ frame.Target # ""
    THEN handlePrivateMessage(s, c, frame, F1)
    ELSE IF frame.json /\ frame.Type = "join_room" /\ frame.Target # ""
    THEN handleJoinRoom(s, c, frame.Target, F1, F2)
    ELSE IF frame.json /\ frame.Type = "leave_room"
    THEN handleLeaveRoom(s, c, F1)
    ELSE LET msg == IF frame.json THEN frame.Content ELSE frame.raw
         IN IF s.RoomID[c] # NoRoom
            THEN BroadcastToRoom(s, s.RoomID[c], msg, F1)
            ELSE BroadcastMessage(s, msg, F1)

processTextMessage(s, c, frame, F1, F2) ==
    IF frame.json /\ frame.Type = "private" /\ frame.Target # ""
    THEN handlePrivateMessage(s, c, frame, F1)
    ELSE IF frame.json /\ frame.Type = "join_room" /\ frame.Target # ""
    THEN handleJoinRoom(s, c, frame.Target, F1, F2)
    ELSE IF frame.json /\ frame.Type = "leave_room"
    THEN handleLeaveRoom(s, c, F1)
    ELSE IF s.RoomID[c] # NoRoom
    THEN BroadcastToRoom(s, s.RoomID[c], frame.raw, F1)
    ELSE BroadcastMessage(s, frame.raw, F1)

\* (mutant) the cleanup stops when the notification cannot be broadcast
CleanupStopsOnError(s, c, F) ==
    LET told == IF s.RoomID[c] # NoRoom THEN BroadcastToRoom(s, s.RoomID[c], LeftMsg(c), F) ELSE s
    IN IF told.err # "nil" THEN told ELSE ConnClose(RemoveClient(told, ClientID(c)), c)

\* a variant of the cleanup that unregisters the client before it notifies the room
CleanupRemovesFirst(s, c, F) ==
    LET removed == RemoveClient(s, ClientID(c))
        told == IF s.RoomID[c] # NoRoom THEN BroadcastToRoom(removed, s.RoomID[c], LeftMsg(c), F)
                ELSE removed
    IN ConnClose(told, c)

\* The deferred cleanup of HandleConnection
Cleanup(s, c, F) ==
    LET told == IF s.RoomID[c] # NoRoom THEN BroadcastToRoom(s, s.RoomID[c], LeftMsg(c), F) ELSE s
    IN ConnClose(RemoveClient(told, ClientID(c)), c)

\* HandleConnection up to the start of the read loop
\* a variant that runs the deferred cleanup also when AddClient has failed
ConnectCleansUp(s, c, roomID, F) ==
    LET added == AddClient(NewClient(s, c, roomID), c, F)
    IN IF added.err # "nil" THEN Cleanup(added, c, {}) ELSE added

Connect(s, c, roomID, F) ==
    LET added == AddClient(NewClient(s, c, roomID), c, F)
    IN IF added.err # "nil" THEN ConnClose(added, c) ELSE added

\* ------------------------------------------------------------- the state machine
Frames ==
    {PlainFrame(m) : m \in UserMsgs \cup {EmptyMsg}}
    \cup {JsonFrame("join_room", r, "") : r \in Rooms}
    \cup {JsonFrame("leave_room", "", "")}
    \cup {JsonFrame("private", id, m) : id \in IDs, m \in UserMsgs}

Created == {c \in Objs : conn[c] # "none"}

\* The clients whose write the network decides: those with an open transport
Open == {c \in Objs : conn[c] = "open"}
OpenIn(r) == {c \in Open : RoomID[c] = r}

Op(name, c, target, msg, t) ==
    [op |-> name, c |-> c, target |-> target, msg |-> msg, ret |-> t.err,
     calls |-> t.calls, reported |-> t.reported, touched |-> t.touched]

Commit(t) ==
    /\ clients' = t.clients
    /\ RoomID' = t.RoomID
    /\ IsActive' = t.IsActive
    /\ conn' = t.conn
    /\ messageLog' = t.messageLog
    /\ maxLogSize' = t.maxLogSize

\* A read loop that waits in conn.ReadMessage
Reading == [at |-> "read", msg |-> ChatMessage(TextMessage, EmptyMsg, NoRoom), tmp |-> <<>>,
            todo |-> {}, writing |-> 0, sent |-> 0]

\* A caller that has made no call yet
NoneHeld == [all |-> "none", copy |-> <<>>,
             hist |-> "none", room |-> NoRoom, vals |-> <<>>, shared |-> FALSE, shift |-> 0]

\* NewClientRepository and NewBroadcastService with WithMaxLogSize(size); nothing connected
\* A caller of the registry that is in no call: at is where it stands, ret the result
\* of its Add (none before it returns), seen the last value Count returned to it
NoCall == [at |-> "idle", ret |-> "none", seen |-> -1]

NewBroadcastService(size) ==
    /\ clients = <<>>
    /\ RoomID = [c \in Objs |-> NoRoom]
    /\ IsActive = [c \in Objs |-> TRUE]
    /\ conn = [c \in Objs |-> "none"]
    /\ messageLog = <<>>
    /\ maxLogSize = size
    /\ pc = [c \in Objs |-> "idle"]
    /\ last = Op("Init", 0, "", EmptyMsg, St)
    /\ inserted = <<>>
    /\ threads = [c \in Objs |-> Reading]
    /\ held = NoneHeld
    /\ logCap = [k \in Rooms \cup {GlobalKey} |-> 0]
    /\ readDeadline = [c \in Objs |-> 0]
    /\ sinceFrame = [c \in Objs |-> 0]
    /\ callers = [c \in Objs |-> NoCall]

Init == NewBroadcastService(MaxLogSizeCfg)

\* A caller constructs a client: NewClient, then SetRoomID
CallNewClient(c, r) ==
    /\ conn[c] = "none"
    /\ LET t == NewClient(St, c, r) IN Commit(t) /\ last' = Op("NewClient", c, r, EmptyMsg, t)
    /\ UNCHANGED <<pc, inserted, threads, held, logCap, readDeadline, sinceFrame, callers>>

\* Direct calls of the registry
CallAdd(c) ==
    /\ c \in Created \cup {0}
    /\ LET t == Add(St, c) IN Commit(t) /\ last' = Op("Add", c, "", EmptyMsg, t)
    /\ UNCHANGED <<pc, inserted, threads, held, logCap, readDeadline, sinceFrame, callers>>

CallRemove(id) ==
    /\ LET t == Remove(St, id) IN Commit(t) /\ last' = Op("Remove", 0, id, EmptyMsg, t)
    /\ UNCHANGED <<pc, inserted, threads, held, logCap, readDeadline, sinceFrame, callers>>

CallGet(id) ==
    /\ LET got == Get(St, id)
       IN last' = Op("Get", got.client, id, EmptyMsg, [St EXCEPT !.err = got.err])
    /\ UNCHANGED <<clients, RoomID, IsActive, conn, messageLog, maxLogSize, pc, inserted,
                   threads, held, logCap, readDeadline, sinceFrame, callers>>

CallClear ==
    /\ LET t == Clear(St) IN Commit(t) /\ last' = Op("Clear", 0, "", EmptyMsg, t)
    /\ UNCHANGED <<pc, inserted, threads, held, logCap, readDeadline, sinceFrame, callers>>

\* Direct calls of the broadcast service
CallAddClient(c, F) ==
    /\ c \in Created \cup {0}
    /\ LET t == AddClient(St, c, F) IN Commit(t) /\ last' = Op("AddClient", c, "", EmptyMsg, t)
    /\ UNCHANGED <<pc, inserted, threads, held, logCap, readDeadline, sinceFrame, callers>>

CallRemoveClient(id) ==
    /\ LET t == RemoveClient(St, id) IN Commit(t) /\ last' = Op("RemoveClient", 0, id, EmptyMsg, t)
    /\ UNCHANGED <<pc, inserted, threads, held, logCap, readDeadline, sinceFrame, callers>>

CallBroadcastMessage(m, F) ==
    /\ LET t == BroadcastMessage(St, m, F)
       IN Commit(t) /\ last' = Op("BroadcastMessage", 0, "", m, t)
    /\ UNCHANGED <<pc, inserted, threads, held, logCap, readDeadline, sinceFrame, callers>>

CallBroadcastToRoom(r, m, F) ==
    /\ LET t == BroadcastToRoom(St, r, m, F)
       IN Commit(t) /\ last' = Op("BroadcastToRoom", 0, r, m, t)
    /\ UNCHANGED <<pc, inserted, threads, held, logCap, readDeadline, sinceFrame, callers>>

CallSendPrivateMessage(id, m, F) ==
    /\ LET t == SendPrivateMessage(St, id, m, F)
       IN Commit(t) /\ last' = Op("SendPrivateMessage", 0, id, m, t)
    /\ UNCHANGED <<pc, inserted, threads, held, logCap, readDeadline, sinceFrame, callers>>

\* The handler: a connection arrives, a text frame is read, the read loop ends
HandleConnection(c, r, F) ==
    /\ pc[c] = "idle"
    /\ LET t == Connect(St, c, r, F)
       IN /\ Commit(t)
          /\ last' = Op("HandleConnection", c, r, EmptyMsg, t)
          /\ pc' = [pc EXCEPT ![c] = IF t.err # "nil" THEN "closed" ELSE "open"]
    /\ readDeadline' = [readDeadline EXCEPT ![c] = ReadDeadline]
    /\ sinceFrame' = [sinceFrame EXCEPT ![c] = 0]
    /\ UNCHANGED <<inserted, threads, held, logCap, callers>>

ReadText(c, frame, F1, F2) ==
    /\ pc[c] = "open"
    /\ LET t == processTextMessage(UpdateActivity(St, c), c, frame, F1, F2)
       IN Commit(t) /\ last' = Op("ReadText", c, frame.Target, frame.raw, t)
    /\ sinceFrame' = [sinceFrame EXCEPT ![c] = 0]
    /\ UNCHANGED <<pc, inserted, threads, held, logCap, readDeadline, callers>>

ReadError(c, F) ==
    /\ pc[c] = "open"
    /\ LET t == Cleanup(St, c, F) IN Commit(t) /\ last' = Op("ReadError", c, "", EmptyMsg, t)
    /\ pc' = [pc EXCEPT ![c] = "closed"]
    /\ UNCHANGED <<inserted, threads, held, logCap, readDeadline, sinceFrame, callers>>

\* The broadcast service under direct calls
Next ==
    \/ \E c \in Conns, r \in Rooms \cup {NoRoom} : CallNewClient(c, r)
    \/ \E c \in Conns \cup {0} : \E F \in SUBSET (IF c = 0 THEN {} ELSE OpenIn(RoomID[c])) :
          CallAddClient(c, F)
    \/ \E id \in IDs : CallRemoveClient(id)
    \/ \E m \in UserMsgs \cup {EmptyMsg}, F \in SUBSET Open : CallBroadcastMessage(m, F)
    \/ \E r \in Rooms \cup {NoRoom}, m \in UserMsgs \cup {EmptyMsg} : \E F \in SUBSET OpenIn(r) :
          CallBroadcastToRoom(r, m, F)
    \/ \E id \in IDs, m \in UserMsgs \cup {EmptyMsg} :
          \E F \in SUBSET (IF id \in DOMAIN clients THEN {clients[id]} \cap Open ELSE {}) :
             CallSendPrivateMessage(id, m, F)

Spec == Init /\ [][Next]_vars

\* The registry under direct calls
NextRepo ==
    \/ \E c \in Objs : CallNewClient(c, NoRoom)
    \/ \E c \in Objs \cup {0} : CallAdd(c)
    \/ \E id \in IDs : CallRemove(id)
    \/ \E id \in IDs : CallGet(id)
    \/ CallClear

SpecRepo == Init /\ [][NextRepo]_vars

\* The running server: connections arrive, send frames and go
NextHandler ==
    \/ \E c \in Conns, r \in Rooms \cup {NoRoom} : \E F \in SUBSET OpenIn(r) : HandleConnection(c, r, F)
    \/ \E c \in Conns, frame \in Frames :
          \E F1 \in SUBSET Open :
             \E F2 \in (IF frame.Type = "join_room" THEN SUBSET (OpenIn(frame.Target) \cup ({c} \cap Open)) ELSE {{}}) :
                ReadText(c, frame, F1, F2)
    \/ \E c \in Conns : \E F \in SUBSET OpenIn(RoomID[c]) : ReadError(c, F)

SpecHandler == Init /\ [][NextHandler]_vars

\* The message log alone: a service built with WithMaxLogSize(n), then logMessage calls
LogInputs ==
    {ChatMessage(type, NewUserText, r) : type \in {TextMessage, SystemMessage},
                                         r \in {NoRoom, RoomNames[1]}}

InitLog == \E size \in 0..MaxLogSizeLog : NewBroadcastService(size)

CallLogMessage(msg) ==
    /\ Len(inserted) < MaxInserts
    /\ LET t == logMessage(St, msg)
       IN Commit(t) /\ last' = Op("logMessage", 0, msg.RoomID, msg.Content, t)
    /\ inserted' = Append(inserted, msg)
    /\ UNCHANGED <<pc, threads, held, logCap, readDeadline, sinceFrame, callers>>

NextLog == \E msg \in LogInputs : CallLogMessage(msg)

SpecLog == InitLog /\ [][NextLog]_vars

\* One room with a longer log: connections arrive in no room, join the room, leave it, go
InitRooms == NewBroadcastService(MaxLogSizeLog)

RoomFrames == {JsonFrame("join_room", RoomNames[1], ""), JsonFrame("leave_room", "", "")}

NextRooms ==
    \/ \E c \in Conns : HandleConnection(c, NoRoom, {})
    \/ \E c \in Conns, frame \in RoomFrames :
          \E F1 \in SUBSET Open :
             \E F2 \in (IF frame.Type = "join_room" THEN SUBSET Open ELSE {{}}) :
                ReadText(c, frame, F1, F2)
    \/ \E c \in Conns : \E F \in SUBSET OpenIn(RoomID[c]) : ReadError(c, F)

SpecRooms == InitRooms /\ [][NextRooms]_vars

\* ------------------------------------------------------------- a caller of GetAll
\* The caller keeps the returned map and writes to it.  held.all says which map the
\* caller holds: a map of its own (held.copy) or the registry's.
HeldAll == IF held.all = "registry" THEN clients ELSE held.copy

MapStore(m, id, c) == [i \in (DOMAIN m) \cup {id} |-> IF i = id THEN c ELSE m[i]]
MapDelete(m, id) == [i \in (DOMAIN m) \ {id} |-> m[i]]

CallGetAll ==
    /\ LET got == GetAll(St)
       IN held' = [held EXCEPT !.all = IF got.fresh THEN "copy" ELSE "registry",
                               !.copy = IF got.fresh THEN got.map ELSE <<>>]
    /\ last' = Op("GetAll", 0, "", EmptyMsg, St)
    /\ UNCHANGED <<clients, RoomID, IsActive, conn, messageLog, maxLogSize, pc, inserted,
                   threads, logCap, readDeadline, sinceFrame, callers>>

\* The caller writes the map it holds: m[id] = c, delete(m, id)
CallerWrites(name, id, m) ==
    /\ held.all # "none"
    /\ IF held.all = "registry"
       THEN clients' = m /\ UNCHANGED held
       ELSE held' = [held EXCEPT !.copy = m] /\ UNCHANGED clients
    /\ last' = Op(name, 0, id, EmptyMsg, St)
    /\ UNCHANGED <<RoomID, IsActive, conn, messageLog, maxLogSize, pc, inserted, threads, logCap, readDeadline, sinceFrame, callers>>

CallerInsert(id, c) == CallerWrites("CallerInsert", id, MapStore(HeldAll, id, c))

CallerDelete(id) == CallerWrites("CallerDelete", id, MapDelete(HeldAll, id))

NextCallers ==
    \/ \E c \in Conns : CallNewClient(c, NoRoom)
    \/ \E c \in Conns : CallAdd(c)
    \/ \E id \in IDs : CallRemove(id)
    \/ CallClear
    \/ CallGetAll
    \/ \E id \in IDs, c \in Created : CallerInsert(id, c)
    \/ \E id \in IDs : CallerDelete(id)

SpecCallers == Init /\ [][NextCallers]_vars

\* ------------------------------------------------------------- a caller of GetMessageHistory
\* A Go slice is a window on a backing array.  GetMessageHistory returns the log's own
\* slice when the room has a log, so the caller's slice and the log are windows on one
\* array until an append finds the array full and moves the log to a new one.
\* held.shared: the caller's slice is still on the log's array; held.shift: how many
\* of its cells the log has left behind ([1:]); held.vals: its cells as last seen.
\* logCap[key] is the number of free cells behind the log; the capacity an append
\* allocates is the runtime's choice (at least one cell more, here up to MaxGrow more).
MaxLogSizeHist == 2
MaxHistInserts == 4
MaxGrow == 1

\* What GetMessageHistory returns: the elements, and whether it is the log's own slice
HistorySlice(s, roomID) ==
    [vals |-> GetMessageHistory(s, roomID), shared |-> LogKey(roomID) \in DOMAIN s.messageLog]

\* The elements of the slice the caller holds, as the caller reads them now
HeldHist ==
    [i \in 1..Len(held.vals) |->
        IF held.shared /\ i > held.shift
        THEN messageLog[LogKey(held.room)][i - held.shift]
        ELSE held.vals[i]]

Forged(r) == ChatMessage(ErrorMessage, "forged", r)

InitHistory == NewBroadcastService(MaxLogSizeHist)

\* logMessage, with what it does to the memory: the append reallocates when no cell is
\* free, [1:] moves the window on
HistLogMessage(msg, grow) ==
    LET key == LogKey(msg.RoomID)
        before == GetMessageHistory(St, msg.RoomID)
        realloc == logCap[key] = 0
        evicted == Len(before) + 1 > maxLogSize
        t == logMessage(St, msg)
    IN /\ Len(inserted) < MaxHistInserts
       /\ grow \in (IF realloc THEN 0..MaxGrow ELSE {0})
       /\ Commit(t)
       /\ last' = Op("logMessage", 0, msg.RoomID, msg.Content, t)
       /\ logCap' = [logCap EXCEPT ![key] = IF realloc THEN grow ELSE @ - 1]
       /\ held' = IF held.hist = "none" \/ ~held.shared \/ LogKey(held.room) # key THEN held
                  ELSE IF realloc THEN [held EXCEPT !.vals = HeldHist, !.shared = FALSE]
                  ELSE IF evicted THEN [held EXCEPT !.vals = HeldHist, !.shift = @ + 1]
                  ELSE held
       /\ inserted' = Append(inserted, msg)
       /\ UNCHANGED <<pc, threads, readDeadline, sinceFrame, callers>>

CallGetMessageHistory(r) ==
    /\ LET got == HistorySlice(St, r)
       IN held' = [held EXCEPT !.hist = "slice", !.room = r, !.vals = got.vals,
                               !.shared = got.shared, !.shift = 0]
    /\ last' = Op("GetMessageHistory", 0, r, EmptyMsg, St)
    /\ UNCHANGED <<clients, RoomID, IsActive, conn, messageLog, maxLogSize, pc, inserted,
                   threads, logCap, readDeadline, sinceFrame, callers>>

\* The caller assigns to an element of the slice it holds: h[i] = x
CallerOverwrite(i, x) ==
    /\ held.hist # "none"
    /\ i \in 1..Len(held.vals)
    /\ IF held.shared /\ i > held.shift
       THEN /\ messageLog' = [messageLog EXCEPT ![LogKey(held.room)][i - held.shift] = x]
            /\ UNCHANGED held
       ELSE /\ held' = [held EXCEPT !.vals[i] = x]
            /\ UNCHANGED messageLog
    /\ last' = Op("CallerOverwrite", 0, held.room, x.Content, St)
    /\ UNCHANGED <<clients, RoomID, IsActive, conn, maxLogSize, pc, inserted, threads, logCap, readDeadline, sinceFrame, callers>>

NextHistory ==
    \/ \E m \in UserMsgs, grow \in 0..MaxGrow :
          HistLogMessage(ChatMessage(TextMessage, m, RoomNames[1]), grow)
    \/ CallGetMessageHistory(RoomNames[1])
    \/ \E i \in 1..MaxLogSizeHist : CallerOverwrite(i, Forged(RoomNames[1]))

SpecHistory == InitHistory /\ [][NextHistory]_vars

\* ------------------------------------------------------------- read loops running at once
\* Every connection is served by a goroutine of its own; BroadcastService takes no lock,
\* so the statements of BroadcastMessage, BroadcastToRoom and logMessage run by two read
\* loops interleave.  A read loop goes through: exists, make, append, store, check,
\* evict (logMessage), then fanout and write (the loop over the clients).
MaxLogSizeConc == 6
MaxSends == 1

ThreadMsg(g) == MsgNames[g]

SetLog(log, key, val) == [k \in (DOMAIN log) \cup {key} |-> IF k = key THEN val ELSE log[k]]

Step(g, at) == threads' = [threads EXCEPT ![g].at = at]

InitConcurrent == \E size \in {1, MaxLogSizeConc} : NewBroadcastService(size)

\* A connection arrives; AddClient has logged its two entries when it arrives in a room.
\* Arrivals are taken between broadcasts, so that the only statements that interleave
\* are those of the read loops.
Arrive(c, r) ==
    /\ pc[c] = "idle"
    /\ \A g \in Conns : threads[g].at = "read"
    /\ LET t == Connect(St, c, r, {})
       IN /\ Commit(t)
          /\ last' = Op("HandleConnection", c, r, EmptyMsg, t)
          /\ pc' = [pc EXCEPT ![c] = IF t.err # "nil" THEN "closed" ELSE "open"]
    /\ inserted' = inserted \o (IF r = NoRoom THEN <<>>
                                ELSE <<ChatMessage(SystemMessage, NewUserText, r),
                                       ChatMessage(TextMessage, NewUserText, r)>>)
    /\ UNCHANGED <<threads, held, logCap, readDeadline, sinceFrame, callers>>

\* processTextMessage of a plain frame: BroadcastToRoom or BroadcastMessage up to the
\* call of logMessage (the clients are read under the registry's lock)
StartBroadcast(g) ==
    /\ pc[g] = "open"
    /\ threads[g].at = "read"
    /\ threads[g].sent < MaxSends
    /\ LET active == GetActiveClients(St)
           targets == IF RoomID[g] = NoRoom THEN active
                      ELSE {x \in active : RoomID[x] = RoomID[g]}
           msg == ChatMessage(TextMessage, ThreadMsg(g), RoomID[g])
       IN IF active = {}
          THEN /\ threads' = [threads EXCEPT ![g].sent = @ + 1]
               /\ UNCHANGED inserted
          ELSE /\ threads' = [threads EXCEPT ![g] = [at |-> "exists", msg |-> msg, tmp |-> <<>>,
                                                     todo |-> targets, writing |-> 0,
                                                     sent |-> @.sent + 1]]
               /\ inserted' = Append(inserted, msg)
    /\ UNCHANGED <<clients, RoomID, IsActive, conn, messageLog, maxLogSize, pc, last, held, logCap, readDeadline, sinceFrame, callers>>

\* logMessage: if _, exists := s.messageLog[roomID]; !exists
LogExists(g) ==
    /\ threads[g].at = "exists"
    /\ Step(g, IF LogKey(threads[g].msg.RoomID) \in DOMAIN messageLog THEN "append" ELSE "make")
    /\ UNCHANGED <<clients, RoomID, IsActive, conn, messageLog, maxLogSize, pc, last, inserted, held, logCap, readDeadline, sinceFrame, callers>>

\* logMessage: s.messageLog[roomID] = make([]ChatMessage, 0)
LogMake(g) ==
    /\ threads[g].at = "make"
    /\ messageLog' = SetLog(messageLog, LogKey(threads[g].msg.RoomID), <<>>)
    /\ Step(g, "append")
    /\ UNCHANGED <<clients, RoomID, IsActive, conn, maxLogSize, pc, last, inserted, held, logCap, readDeadline, sinceFrame, callers>>

\* logMessage: append(s.messageLog[roomID], msg), the read of the log
LogAppend(g) ==
    /\ threads[g].at = "append"
    /\ threads' = [threads EXCEPT ![g].at = "store",
                                  ![g].tmp = Append(messageLog[LogKey(threads[g].msg.RoomID)],
                                                    threads[g].msg)]
    /\ UNCHANGED <<clients, RoomID, IsActive, conn, messageLog, maxLogSize, pc, last, inserted, held, logCap, readDeadline, sinceFrame, callers>>

\* logMessage: s.messageLog[roomID] = (the appended slice)
LogStore(g) ==
    /\ threads[g].at = "store"
    /\ messageLog' = SetLog(messageLog, LogKey(threads[g].msg.RoomID), threads[g].tmp)
    /\ threads' = [threads EXCEPT ![g].at = "check", ![g].tmp = <<>>]
    /\ UNCHANGED <<clients, RoomID, IsActive, conn, maxLogSize, pc, last, inserted, held, logCap, readDeadline, sinceFrame, callers>>

\* logMessage: if len(s.messageLog[roomID]) > s.maxLogSize, and the read of [1:]
LogCheck(g) ==
    /\ threads[g].at = "check"
    /\ LET log == messageLog[LogKey(threads[g].msg.RoomID)]
       IN IF Len(log) > maxLogSize
          THEN threads' = [threads EXCEPT ![g].at = "evict", ![g].tmp = Tail(log)]
          ELSE Step(g, "fanout")
    /\ UNCHANGED <<clients, RoomID, IsActive, conn, messageLog, maxLogSize, pc, last, inserted, held, logCap, readDeadline, sinceFrame, callers>>

\* logMessage: s.messageLog[roomID] = (the slice without its first entry)
LogEvict(g) ==
    /\ threads[g].at = "evict"
    /\ messageLog' = SetLog(messageLog, LogKey(threads[g].msg.RoomID), threads[g].tmp)
    /\ threads' = [threads EXCEPT ![g].at = "fanout", ![g].tmp = <<>>]
    /\ UNCHANGED <<clients, RoomID, IsActive, conn, maxLogSize, pc, last, inserted, held, logCap, readDeadline, sinceFrame, callers>>

\* variant of BeginWrite: the loop takes its next recipient from the registry as it is now
BeginWriteAny(g, x) ==
    /\ threads[g].at = "fanout"
    /\ x \in GetActiveClients(St)
    /\ threads' = [threads EXCEPT ![g].at = "write", ![g].writing = x]
    /\ UNCHANGED <<clients, RoomID, IsActive, conn, messageLog, maxLogSize, pc, last, inserted, held, logCap, readDeadline, sinceFrame, callers>>

\* The loop over the clients: client.Conn.WriteMessage is entered
BeginWrite(g, x) ==
    /\ threads[g].at = "fanout"
    /\ x \in threads[g].todo
    /\ threads' = [threads EXCEPT ![g].at = "write", ![g].writing = x]
    /\ UNCHANGED <<clients, RoomID, IsActive, conn, messageLog, maxLogSize, pc, last, inserted, held, logCap, readDeadline, sinceFrame, callers>>

\* client.Conn.WriteMessage returns; handleClientError or UpdateActivity follows
EndWrite(g, F) ==
    /\ threads[g].at = "write"
    /\ Commit(WriteTo(St, threads[g].writing, F))
    /\ threads' = [threads EXCEPT ![g].at = "fanout", ![g].writing = 0,
                                  ![g].todo = @ \ {threads[g].writing}]
    /\ UNCHANGED <<pc, last, inserted, held, logCap, readDeadline, sinceFrame, callers>>

\* The broadcast returns to the read loop
EndBroadcast(g) ==
    /\ threads[g].at = "fanout"
    /\ threads[g].todo = {}
    /\ threads' = [threads EXCEPT ![g] = [Reading EXCEPT !.sent = threads[g].sent]]
    /\ UNCHANGED <<clients, RoomID, IsActive, conn, messageLog, maxLogSize, pc, last, inserted, held, logCap, readDeadline, sinceFrame, callers>>

NextConcurrent ==
    \/ \E c \in Conns, r \in {NoRoom, RoomNames[1]} : Arrive(c, r)
    \/ \E g \in Conns : StartBroadcast(g)
    \/ \E g \in Conns : LogExists(g)
    \/ \E g \in Conns : LogMake(g)
    \/ \E g \in Conns : LogAppend(g)
    \/ \E g \in Conns : LogStore(g)
    \/ \E g \in Conns : LogCheck(g)
    \/ \E g \in Conns : LogEvict(g)
    \/ \E g \in Conns, x \in Conns : BeginWrite(g, x)
    \/ \E g \in Conns : \E F \in SUBSET {threads[g].writing} : EndWrite(g, F)
    \/ \E g \in Conns : EndBroadcast(g)

SpecConcurrent == InitConcurrent /\ [][NextConcurrent]_vars

\* ------------------------------------------------------------- claims
Registered == {clients[i] : i \in DOMAIN clients}

\* C1: every successful Add raises Count() by one and every successful Remove lowers it
\* by one, so Count() is the number of successful Adds minus that of successful Removes;
\* a failed Remove leaves the registry unchanged, and an Add whose identifier is already
\* registered returns ErrClientExists and leaves Count() and the client stored under
\* that identifier unchanged.
C1_CountTracksAddRemove ==
    [][ /\ (last'.op = "Add" /\ last'.ret = "nil") => Count(St') = Count(St) + 1
        /\ (last'.op = "Add" /\ last'.ret # "nil") => clients' = clients
        /\ (last'.op = "Add" /\ last'.c # 0 /\ ClientID(last'.c) \in DOMAIN clients)
              => /\ last'.ret = "ErrClientExists"
                 /\ Count(St') = Count(St)
                 /\ clients'[ClientID(last'.c)] = clients[ClientID(last'.c)]
        /\ (last'.op = "Remove" /\ last'.ret = "nil") => Count(St') = Count(St) - 1
        /\ (last'.op = "Remove" /\ last'.ret # "nil") => clients' = clients
      ]_vars

\* C1 witness: a duplicate Add of another client object with a registered identifier was refused
C1_Witness ==
    /\ last.op = "Add"
    /\ last.ret = "ErrClientExists"
    /\ clients[ClientID(last.c)] # last.c
    /\ Count(St) = 2

\* The clients a broadcast of the last operation was to reach, taken in the state before it
ActiveBefore == {c \in Registered : IsActive[c]}
MembersBefore(r) == {c \in ActiveBefore : RoomID[c] = r}
Rejected == {"ErrEmptyMessage", "ErrEmptyRoomID", "ErrNoClients"}
FailedIn(l) == UNION {l.calls[i].failed : i \in DOMAIN l.calls}
WriteErrorOf(c) == [client |-> ClientID(c), cause |-> "WriteError"]

\* C2: BroadcastToRoom(r, msg) attempts a write only on registered clients that are
\* active and whose RoomID is r; a client of another room or of no room is never written.
C2_RoomBroadcastOnlyToMembers ==
    [][ last'.op = "BroadcastToRoom" =>
          \A c \in last'.calls[1].written :
              c \in Registered /\ IsActive[c] /\ RoomID[c] = last'.target
      ]_vars

\* C2 witness: a room broadcast wrote to a member while an active client of another
\* room (or of none) was registered
C2_Witness ==
    /\ last.op = "BroadcastToRoom"
    /\ last.ret = "nil"
    /\ last.calls[1].written # {}
    /\ \E c \in GetActiveClients(St) : RoomID[c] # last.target /\ c \notin last.calls[1].written

\* C3 (as amended): a non-empty plain frame of a connection that is in no room is
\* written to every registered client active at the moment of the call, whatever its
\* room, and to the sender itself whenever the sender is still active.
C3_BroadcastAllReachesEveryActive ==
    [][ (/\ last'.op = "ReadText"
         /\ last'.calls # <<>>
         /\ last'.calls[1].op = "BroadcastMessage"
         /\ last'.calls[1].ret = "nil"
         /\ last'.msg # EmptyMsg)
        => /\ last'.calls[1].msg = last'.msg
           /\ last'.calls[1].written = ActiveBefore
           /\ (IsActive[last'.c] => last'.c \in last'.calls[1].written)
      ]_vars

\* C3 as stated: ... and the sender's own connection is always one of the recipients
C3_Original ==
    [][ (/\ last'.op = "ReadText"
         /\ last'.calls # <<>>
         /\ last'.calls[1].op = "BroadcastMessage"
         /\ last'.calls[1].ret = "nil"
         /\ last'.msg # EmptyMsg)
        => /\ last'.calls[1].msg = last'.msg
           /\ last'.calls[1].written = ActiveBefore
           /\ last'.c \in last'.calls[1].written
      ]_vars

\* C3 witness: a broadcast to all reached the sender and a client that is in a room
C3_Witness ==
    /\ last.op = "ReadText"
    /\ last.calls # <<>>
    /\ last.calls[1].op = "BroadcastMessage"
    /\ last.calls[1].ret = "nil"
    /\ last.c \in last.calls[1].written
    /\ \E c \in last.calls[1].written : c # last.c /\ RoomID[c] # NoRoom

\* C4: in BroadcastMessage and BroadcastToRoom a failed write does not end the fan-out:
\* every target is written; each failed write is reported to errorHandler exactly once,
\* wrapping the write error; the failing client is deactivated and its transport closed;
\* the clients whose write succeeded stay as they were; the call does not return the
\* write error.
C4_FailedWriteIsLocal ==
    [][ (last'.op \in {"BroadcastMessage", "BroadcastToRoom"} /\ last'.ret \notin Rejected)
        => LET call == last'.calls[1]
               targets == IF last'.op = "BroadcastMessage" THEN ActiveBefore
                          ELSE MembersBefore(last'.target)
           IN /\ call.written = targets
              /\ \A c \in call.failed :
                    /\ CopiesIn(WriteErrorOf(c), last'.reported) = 1
                    /\ ~IsActive'[c]
                    /\ conn'[c] = "closed"
              /\ BagCardinality(last'.reported) = Cardinality(call.failed)
              /\ \A c \in Objs \ call.failed : IsActive'[c] = IsActive[c] /\ conn'[c] = conn[c]
              /\ last'.ret # "WriteError"
      ]_vars

\* C4 witness: one write of a broadcast failed and another recipient was still written
C4_Witness ==
    /\ last.op \in {"BroadcastMessage", "BroadcastToRoom"}
    /\ last.calls[1].failed # {}
    /\ last.calls[1].written \ last.calls[1].failed # {}
    /\ BagCardinality(last.reported) = 1

\* C5: a client whose write has failed is inactive from then on: in every later state
\* its IsActive is false and neither GetActiveClients() nor GetClientsInRoom(r) holds it.
C5_FailedStaysInactive ==
    [][ \A c \in Objs :
          (c \in FailedIn(last') \/ ~IsActive[c])
          => /\ ~IsActive'[c]
             /\ c \notin GetActiveClients(St')
             /\ \A r \in Rooms \cup {NoRoom} : c \notin GetClientsInRoom(St', r)
      ]_vars

\* C5 witness: a later broadcast passed by a registered client whose write had failed
C5_Witness ==
    /\ last.op \in {"BroadcastMessage", "BroadcastToRoom"}
    /\ last.ret = "nil"
    /\ last.calls[1].failed = {}
    /\ \E c \in Registered : ~IsActive[c] /\ conn[c] = "closed" /\ c \notin last.calls[1].written
                               /\ (last.op = "BroadcastToRoom" => RoomID[c] = last.target)

\* The last n entries of a sequence
LastN(seq, n) == IF Len(seq) <= n THEN seq ELSE SubSeq(seq, Len(seq) - n + 1, Len(seq))

\* The messages handed to logMessage for one room key, in order
InsertedFor(k) ==
    LET OfKey(m) == LogKey(m.RoomID) = k
    IN SelectSeq(inserted, OfKey)

\* Nothing but the last operation's record changed, and the operation wrote nothing
NothingChanged ==
    /\ UNCHANGED <<clients, RoomID, IsActive, conn, messageLog, maxLogSize, readDeadline, sinceFrame, callers>>
    /\ \A i \in DOMAIN last'.calls : last'.calls[i].written = {}
    /\ last'.touched = {}
    /\ BagToSet(last'.reported) = {}

\* C6: after any sequence of insertions every room's history holds at most maxLogSize
\* entries, and it is the most recent entries in insertion order (the oldest is evicted
\* first).
C6_LogIsBoundedFIFO ==
    \A r \in Rooms \cup {NoRoom} :
        /\ Len(GetMessageHistory(St, r)) <= maxLogSize
        /\ GetMessageHistory(St, r) = LastN(InsertedFor(LogKey(r)), maxLogSize)

\* C6 witness: bound 3, five messages inserted into one room, the last three are kept
C6_Witness ==
    /\ maxLogSize = 3
    /\ Len(InsertedFor(RoomNames[1])) = 5
    /\ InsertedFor(RoomNames[1])[2] # InsertedFor(RoomNames[1])[3]
    /\ InsertedFor(RoomNames[1])[3] # InsertedFor(RoomNames[1])[5]
    /\ GetMessageHistory(St, RoomNames[1]) = SubSeq(InsertedFor(RoomNames[1]), 3, 5)

\* C7: a broadcast rejected by validation changes no log and no client and writes
\* nothing: BroadcastMessage with an empty payload returns ErrEmptyMessage and with no
\* active client ErrNoClients; BroadcastToRoom with an empty payload returns
\* ErrEmptyMessage and with a blank room id the empty-room-id error.
C7_RejectedBroadcastChangesNothing ==
    [][ LET rejectedAs ==
              IF last'.op = "BroadcastMessage" /\ last'.msg = EmptyMsg THEN "ErrEmptyMessage"
              ELSE IF last'.op = "BroadcastMessage" /\ ActiveBefore = {} THEN "ErrNoClients"
              ELSE IF last'.op = "BroadcastToRoom" /\ last'.msg = EmptyMsg THEN "ErrEmptyMessage"
              ELSE IF last'.op = "BroadcastToRoom" /\ last'.target = NoRoom THEN "ErrEmptyRoomID"
              ELSE "none"
        IN /\ rejectedAs # "none" => (last'.ret = rejectedAs /\ NothingChanged)
           /\ (last'.op \in {"BroadcastMessage", "BroadcastToRoom"} /\ last'.ret \in Rejected)
                 => NothingChanged
      ]_vars

\* C7 witness: BroadcastMessage was refused for want of an active client, with a
\* client registered and a log in place
C7_Witness ==
    /\ last.op = "BroadcastMessage"
    /\ last.ret = "ErrNoClients"
    /\ Registered # {}
    /\ DOMAIN messageLog # {}

\* C8 (as amended): BroadcastToRoom(r, msg) with non-empty r and msg, called while some
\* client is active but none is a member of r, fails with the no-member error and has
\* appended msg to r's history all the same (the log holding at least one entry); called
\* while no client is active at all it returns ErrNoClients and records nothing.
C8_MemberlessRoomIsLogged ==
    [][ (last'.op = "BroadcastToRoom" /\ last'.msg # EmptyMsg /\ last'.target # NoRoom
         /\ MembersBefore(last'.target) = {})
        => IF ActiveBefore = {}
           THEN last'.ret = "ErrNoClients" /\ messageLog' = messageLog
           ELSE /\ last'.ret = "ErrNoClientsInRoom"
                /\ last'.calls[1].written = {}
                /\ GetMessageHistory(St', last'.target) =
                      LastN(Append(GetMessageHistory(St, last'.target),
                                   ChatMessage(TextMessage, last'.msg, last'.target)),
                            maxLogSize)
                /\ maxLogSize >= 1 =>
                      \E i \in DOMAIN GetMessageHistory(St', last'.target) :
                          GetMessageHistory(St', last'.target)[i].Content = last'.msg
      ]_vars

\* C8 as stated: whenever the call fails because no active client is a member of r,
\* the message is in r's history afterwards
C8_Original ==
    [][ (last'.op = "BroadcastToRoom" /\ last'.msg # EmptyMsg /\ last'.target # NoRoom
         /\ last'.ret # "nil" /\ MembersBefore(last'.target) = {})
        => \E i \in DOMAIN GetMessageHistory(St', last'.target) :
               GetMessageHistory(St', last'.target)[i].Content = last'.msg
      ]_vars

\* C8 witness: a broadcast to a room without members failed and is in the history
C8_Witness ==
    /\ last.op = "BroadcastToRoom"
    /\ last.ret = "ErrNoClientsInRoom"
    /\ GetActiveClients(St) # {}
    /\ GetClientsInRoom(St, last.target) = {}
    /\ GetMessageHistory(St, last.target) # <<>>
    /\ GetMessageHistory(St, last.target)[Len(GetMessageHistory(St, last.target))]
          = ChatMessage(TextMessage, last.msg, last.target)

\* C9: SendPrivateMessage to a registered client whose IsActive is false returns the
\* inactive-client error, writes nothing and changes no client and no log.
C9_NoWriteToInactiveTarget ==
    [][ (/\ last'.op = "SendPrivateMessage"
         /\ last'.msg # EmptyMsg
         /\ last'.target \in DOMAIN clients
         /\ ~IsActive[clients[last'.target]])
        => last'.ret = "ErrInactive" /\ NothingChanged
      ]_vars

\* C9 witness: a private message to a registered, deactivated client was refused
C9_Witness ==
    /\ last.op = "SendPrivateMessage"
    /\ last.ret = "ErrInactive"
    /\ last.target \in DOMAIN clients
    /\ ~IsActive[clients[last.target]]

\* C10: for an open connection that is in no room, join_room(r) followed at once by
\* leave_room leaves RoomID empty and adds exactly two entries to r's log, both of
\* system kind: the "joined" notification, then the "left" notification. Stated for
\* the connection still active and every write succeeding.
C10_JoinThenLeave ==
    \A c \in Conns, r \in Rooms :
        (pc[c] = "open" /\ RoomID[c] = NoRoom /\ IsActive[c] /\ conn[c] = "open")
        => LET joined == processTextMessage(St, c, JsonFrame("join_room", r, ""), {}, {})
               left == processTextMessage(joined, c, JsonFrame("leave_room", "", ""), {}, {})
           IN /\ left.RoomID[c] = NoRoom
              /\ GetMessageHistory(left, r) =
                    LastN(GetMessageHistory(St, r)
                             \o <<ChatMessage(SystemMessage, JoinedMsg(c), r),
                                   ChatMessage(SystemMessage, LeftMsg(c), r)>>,
                          maxLogSize)

\* The last operation was the read of a join_room frame for room last'.target
JoinRead == last'.op = "ReadText" /\ last'.target # NoRoom
            /\ last'.msg = JsonFrame("join_room", last'.target, "").raw

\* C11: join_room(b) read from a connection that is in room a makes exactly two
\* broadcasts, in this order: the "left" notification to room a, reaching the active
\* members of a as they were (the connection among them while it is active), then the
\* "joined" notification to room b, reaching the members of b and the connection
\* itself; no former room-mate in a is written by the second and no member of b by
\* the first, and the call ends with RoomID equal to b.
C11_JoinLeavesOldRoomFirst ==
    [][ (JoinRead /\ RoomID[last'.c] # NoRoom)
        => LET c == last'.c
               a == RoomID[c]
               b == last'.target
               stillActive == ActiveBefore \ last'.calls[1].failed
           IN /\ Len(last'.calls) = 2
              /\ last'.calls[1].op = "BroadcastToRoom"
              /\ last'.calls[1].target = a
              /\ last'.calls[1].msg = LeftMsg(c)
              /\ last'.calls[1].written = MembersBefore(a)
              /\ last'.calls[2].op = "BroadcastToRoom"
              /\ last'.calls[2].target = b
              /\ last'.calls[2].msg = JoinedMsg(c)
              /\ last'.calls[2].written =
                    {x \in stillActive : x = c \/ (x # c /\ RoomID[x] = b)}
              /\ a # b => /\ last'.calls[1].written \cap MembersBefore(b) = {}
                          /\ last'.calls[2].written \cap MembersBefore(a) \subseteq {c}
              /\ RoomID'[c] = b
              /\ \A x \in Objs \ {c} : RoomID'[x] = RoomID[x]
      ]_vars

\* C11 witness: a connection moved from one room to another; its old room-mate got
\* the "left" notification and it got the "joined" notification itself
C11_Witness ==
    /\ last.op = "ReadText"
    /\ Len(last.calls) = 2
    /\ last.calls[1].msg = LeftMsg(last.c)
    /\ last.calls[2].msg = JoinedMsg(last.c)
    /\ last.calls[1].target # last.calls[2].target
    /\ last.calls[1].ret = "nil"
    /\ last.calls[2].ret = "nil"
    /\ \E x \in Conns \ {last.c} : x \in last.calls[1].written
    /\ last.c \in last.calls[2].written
    /\ RoomID[last.c] = last.calls[2].target

\* C12: when the read loop of a registered connection ends, the handler broadcasts the
\* "left" notification to the connection's room if it is in one, then calls
\* RemoveClient with the connection's id, then closes the transport, the later steps
\* also when the broadcast returned an error; afterwards the id is not registered,
\* and when no connection is left open Count() is 0.
C12_CleanupAlwaysCompletes ==
    [][ last'.op = "ReadError"
        => LET c == last'.c
               n == Len(last'.calls)
           IN /\ ClientID(c) \in DOMAIN clients
              /\ n = IF RoomID[c] # NoRoom THEN 2 ELSE 1
              /\ RoomID[c] # NoRoom =>
                    /\ last'.calls[1].op = "BroadcastToRoom"
                    /\ last'.calls[1].target = RoomID[c]
                    /\ last'.calls[1].msg = LeftMsg(c)
                    /\ last'.calls[1].written = MembersBefore(RoomID[c])
              /\ last'.calls[n].op = "RemoveClient"
              /\ last'.calls[n].target = ClientID(c)
              /\ last'.calls[n].ret = "nil"
              /\ conn'[c] = "closed"
              /\ ClientID(c) \notin DOMAIN clients'
              /\ Count(St') = Count(St) - 1
              /\ (\A x \in Conns : pc'[x] # "open") => Count(St') = 0
      ]_vars

\* C12 witness: the last open connection went while in a room; the broadcast of its
\* "left" notification failed, and it was unregistered and closed all the same
C12_Witness ==
    /\ last.op = "ReadError"
    /\ Len(last.calls) = 2
    /\ last.calls[1].ret # "nil"
    /\ last.calls[2].ret = "nil"
    /\ conn[last.c] = "closed"
    /\ \A x \in Conns : pc[x] = "closed"
    /\ Count(St) = 0

\* No read loop is inside a broadcast
Quiescent == \A g \in Conns : threads[g].at = "read"

\* How often every message occurs in a sequence
Occurrences(seq) == [m \in {seq[i] : i \in DOMAIN seq} |->
                        Cardinality({i \in DOMAIN seq : seq[i] = m})]

\* C13: at no time are two read loops inside a write to the transport of the same
\* connection.
C13_WritesNeverOverlap ==
    \A g \in Conns, h \in Conns :
        (g # h /\ threads[g].at = "write" /\ threads[h].at = "write")
        => threads[g].writing # threads[h].writing

\* C14: whenever no broadcast is running, the log of every room that read loops
\* broadcast into holds as many entries as were logged to it, up to maxLogSize, and
\* as long as no more than maxLogSize were logged it holds every one of them.
C14_ConcurrentAppendsAreKept ==
    Quiescent =>
        \A r \in {RoomID[g] : g \in {x \in Conns : pc[x] = "open"}} \ {NoRoom} :
            LET hist == GetMessageHistory(St, r)
                logged == InsertedFor(LogKey(r))
            IN /\ Len(hist) <= maxLogSize
               /\ Len(hist) = IF Len(logged) <= maxLogSize THEN Len(logged) ELSE maxLogSize
               /\ Len(logged) <= maxLogSize => Occurrences(hist) = Occurrences(logged)

\* C15: Remove(id) and Get(id) of an identifier that is not registered return
\* ErrClientNotFound (Get with no client) and leave the registry as it was; a Remove
\* that directly follows a Remove of the same identifier returns ErrClientNotFound;
\* Get of a registered identifier returns its client.
C15_UnknownIdIsNotFound ==
    [][ /\ (last'.op \in {"Remove", "Get"} /\ last'.target \notin DOMAIN clients)
            => /\ last'.ret = "ErrClientNotFound"
               /\ last'.op = "Get" => last'.c = 0
               /\ NothingChanged
        /\ (last'.op = "Remove" /\ last.op = "Remove" /\ last'.target = last.target)
            => last'.ret = "ErrClientNotFound" /\ clients' = clients
        /\ (last'.op = "Get" /\ last'.target \in DOMAIN clients)
            => last'.ret = "nil" /\ last'.c = clients[last'.target] /\ NothingChanged
      ]_vars

\* C15 witness: a Remove found nothing to remove for the identifier of a client
\* that exists, while another client is registered
C15_Witness ==
    /\ last.op = "Remove"
    /\ last.ret = "ErrClientNotFound"
    /\ \E c \in Created : ClientID(c) = last.target
    /\ Count(St) = 1

\* C16: GetAll returns the registry's contents in a map of its own: writing to the
\* returned map (insert, delete) leaves the registry, and so Count, Get and later
\* GetAll results, as they were, and Add, Remove and Clear after the call leave the
\* returned map as it was.
C16_GetAllIsASnapshot ==
    [][ /\ last'.op = "GetAll" => HeldAll' = clients /\ clients' = clients
        /\ last'.op \in {"CallerInsert", "CallerDelete"}
              => /\ clients' = clients
                 /\ Count(St') = Count(St)
                 /\ \A id \in IDs : Get(St', id) = Get(St, id)
                 /\ GetAll(St').map = GetAll(St).map
        /\ (last'.op \in {"Add", "Remove", "Clear"} /\ held.all # "none")
              => HeldAll' = HeldAll
      ]_vars

\* C16 witness: the caller has changed the map it was given and the registry has
\* changed since the call: the two differ in both directions
C16_Witness ==
    /\ held.all # "none"
    /\ last.op = "CallerDelete"
    /\ \E id \in DOMAIN clients : id \notin DOMAIN HeldAll
    /\ \E id \in DOMAIN HeldAll : id \notin DOMAIN clients

\* C17: GetMessageHistory(room) returns a copy of the room's log: it holds the log's
\* entries, assigning to an element of the returned sequence never changes what
\* GetMessageHistory returns afterwards, and entries logged after the call never
\* change the sequence already returned.
C17_HistoryIsACopy ==
    [][ /\ last'.op = "GetMessageHistory"
              => HeldHist' = GetMessageHistory(St, last'.target)
        /\ last'.op = "CallerOverwrite"
              => \A r \in Rooms \cup {NoRoom} :
                    GetMessageHistory(St', r) = GetMessageHistory(St, r)
        /\ (last'.op = "logMessage" /\ held.hist # "none")
              => HeldHist' = HeldHist
      ]_vars

\* The last operation was the read of a plain data frame, of leave_room, of private
PlainRead == last'.op = "ReadText" /\ last'.msg \in UserMsgs \cup {EmptyMsg}
LeaveRead == last'.op = "ReadText" /\ last'.msg = JsonFrame("leave_room", "", "").raw
PrivateRead(m) == last'.op = "ReadText" /\ last'.target # ""
                  /\ last'.msg = JsonFrame("private", last'.target, m).raw

\* C18: a plain data frame read from a connection makes exactly one service call, with
\* the frame's bytes as the message: BroadcastToRoom for the connection's room when
\* its RoomID is not empty, BroadcastMessage when it is empty.
C18_PlainFrameRouting ==
    [][ PlainRead
        => /\ Len(last'.calls) = 1
           /\ last'.calls[1].msg = last'.msg
           /\ IF RoomID[last'.c] # NoRoom
              THEN /\ last'.calls[1].op = "BroadcastToRoom"
                   /\ last'.calls[1].target = RoomID[last'.c]
                   /\ last'.calls[1].written \subseteq MembersBefore(RoomID[last'.c])
              ELSE /\ last'.calls[1].op = "BroadcastMessage"
                   /\ last'.calls[1].ret = "nil" => last'.calls[1].written = ActiveBefore
           /\ RoomID' = RoomID
      ]_vars

\* C18 witness: a frame from a connection in a room reached that room only, while
\* another active connection was outside it
C18_Witness ==
    /\ last.op = "ReadText"
    /\ last.msg \in UserMsgs
    /\ Len(last.calls) = 1
    /\ last.calls[1].op = "BroadcastToRoom"
    /\ last.calls[1].ret = "nil"
    /\ last.c \in last.calls[1].written
    /\ \E x \in GetActiveClients(St) : x \notin last.calls[1].written

\* C19: leave_room read from a connection whose RoomID is empty makes no service call,
\* adds nothing to any log and leaves every RoomID as it was; read from a connection in
\* room r it broadcasts the "left" notification to r, the connection still counted
\* among r's members, and then sets the connection's RoomID to empty.
C19_LeaveRoom ==
    [][ LeaveRead
        => LET c == last'.c
           IN IF RoomID[c] = NoRoom
              THEN /\ last'.calls = <<>>
                   /\ messageLog' = messageLog
                   /\ RoomID' = RoomID
                   /\ IsActive' = IsActive /\ conn' = conn /\ clients' = clients
              ELSE /\ Len(last'.calls) = 1
                   /\ last'.calls[1].op = "BroadcastToRoom"
                   /\ last'.calls[1].target = RoomID[c]
                   /\ last'.calls[1].msg = LeftMsg(c)
                   /\ last'.calls[1].written = MembersBefore(RoomID[c])
                   /\ RoomID' = [RoomID EXCEPT ![c] = NoRoom]
      ]_vars

\* C19 witness: a connection left its room, was itself written the "left"
\* notification and now is in no room
C19_Witness ==
    /\ last.op = "ReadText"
    /\ last.msg = JsonFrame("leave_room", "", "").raw
    /\ Len(last.calls) = 1
    /\ last.calls[1].ret = "nil"
    /\ last.c \in last.calls[1].written
    /\ Cardinality(last.calls[1].written) = 2
    /\ RoomID[last.c] = NoRoom

\* C20: a private frame with a non-empty target makes exactly one service call,
\* SendPrivateMessage to that target with the content wrapped with the sender's
\* UserName; no broadcast is made, no RoomID changes and no log gains an entry.
C20_PrivateMessage ==
    [][ \A m \in UserMsgs :
          PrivateRead(m)
          => /\ Len(last'.calls) = 1
             /\ last'.calls[1].op = "SendPrivateMessage"
             /\ last'.calls[1].target = last'.target
             /\ last'.calls[1].msg = PrivateMsg(last'.c, m)
             /\ last'.calls[1].written \subseteq
                   {clients[id] : id \in {last'.target} \cap DOMAIN clients}
             /\ RoomID' = RoomID
             /\ messageLog' = messageLog
             /\ clients' = clients
      ]_vars

\* C20 witness: a named connection in a room sent a private message to the other
\* connection, which was written
C20_Witness ==
    /\ last.op = "ReadText"
    /\ Len(last.calls) = 1
    /\ last.calls[1].op = "SendPrivateMessage"
    /\ last.calls[1].ret = "nil"
    /\ UserName(last.c) # ""
    /\ RoomID[last.c] # NoRoom
    /\ last.calls[1].written = {clients[last.target]}
    /\ clients[last.target] # last.c

\* ---------------------------------------------------------------------------
\* Delivery errors and the sender (C21)
\* ---------------------------------------------------------------------------

\* the service results that mean a message reached nobody it was aimed at
Undelivered == {"ErrClientNotFound", "ErrInactive", "WriteError", "ErrNoClientsInRoom"}

\* C21: when a connection's private message or room broadcast is not delivered (the
\* service call returns not-found, inactive, a write error or no-clients-in-room) and
\* the sender's own transport is open and did not fail, the handler writes an error to
\* the sender's connection in the same step, and the sender stays in its read loop and
\* registered.
C21_SenderIsToldOfFailure ==
    [][ ( /\ last'.op = "ReadText"
          /\ Len(last'.calls) >= 1
          /\ last'.calls[1].op \in {"SendPrivateMessage", "BroadcastToRoom"}
          /\ last'.calls[1].ret \in Undelivered
          /\ last'.msg \notin {JsonFrame("leave_room", "", "").raw}
          /\ ~JoinRead
          /\ conn[last'.c] = "open" /\ IsActive[last'.c]
          /\ last'.c \notin FailedIn(last') )
        => /\ \E i \in 2..Len(last'.calls) : last'.c \in last'.calls[i].written
           /\ pc'[last'.c] = "open"
           /\ ClientID(last'.c) \in DOMAIN clients'
      ]_vars

\* ---------------------------------------------------------------------------
\* Failures stay with the failing connection (C22)
\* ---------------------------------------------------------------------------

\* the connections a step fails: those whose write failed in it, and the one whose
\* read loop ended with a read error (a peer close or an expired read deadline)
FailingIn(l) == FailedIn(l) \cup (IF l.op = "ReadError" THEN {l.c} ELSE {})

\* what the registry, the client fields and the transport hold for one connection
Standing(cl, act, rm, cn, p, x) ==
    [registered |-> ClientID(x) \in DOMAIN cl /\ cl[ClientID(x)] = x,
     active |-> act[x], room |-> rm[x], transport |-> cn[x], loop |-> p[x]]

\* the connection a step is meant to change: the one connecting, joining or leaving a room
ActorOf(l) ==
    IF \/ l.op = "HandleConnection"
       \/ l.op = "ReadText" /\ l.msg = JsonFrame("leave_room", "", "").raw
       \/ l.op = "ReadText" /\ l.target \in Rooms
    THEN {l.c} ELSE {}

\* C22: a step in which a connection fails (a failed write to it, or its read error with
\* the cleanup that follows) leaves the active flag, room, registration, transport and
\* read loop of every other connection as they were; the only other change is the one
\* the step is for, to the connection that is connecting, joining or leaving a room.
C22_FailureTouchesOnlyTheFailed ==
    [][ FailingIn(last') # {}
        => \A x \in Objs \ (FailingIn(last') \cup ActorOf(last')) :
              Standing(clients', IsActive', RoomID', conn', pc', x)
                 = Standing(clients, IsActive, RoomID, conn, pc, x)
      ]_vars

\* C22 witness: a connection broadcast a plain frame to its room, the write to the other
\* member failed and deactivated it, and the sender is still active, open and registered
C22_Witness ==
    /\ last.op = "ReadText" /\ last.msg \in UserMsgs
    /\ \E x \in Conns \ {last.c} :
          /\ FailedIn(last) = {x}
          /\ ~IsActive[x] /\ conn[x] = "closed"
          /\ RoomID[x] = RoomID[last.c] /\ RoomID[x] # NoRoom
    /\ IsActive[last.c] /\ conn[last.c] = "open" /\ pc[last.c] = "open"
    /\ ClientID(last.c) \in DOMAIN clients

\* ---------------------------------------------------------------------------
\* Registration through the service, with a room (C23, C30)
\* ---------------------------------------------------------------------------

\* The service with the log bound of three: clients are created with or without a room,
\* added (also nil, and objects that share an identifier) and removed
NextRegister ==
    \/ \E c \in Objs, r \in Rooms \cup {NoRoom} : CallNewClient(c, r)
    \/ \E c \in Objs \cup {0} : \E F \in SUBSET (IF c = 0 THEN {} ELSE OpenIn(RoomID[c])) :
          CallAddClient(c, F)
    \/ \E id \in IDs : CallRemoveClient(id)

SpecRegister == InitRooms /\ [][NextRegister]_vars

\* a successful AddClient of a client whose RoomID is not empty
RegisterInRoom ==
    /\ last'.op = "AddClient" /\ last'.ret = "nil"
    /\ last'.c # 0 /\ RoomID[last'.c] # NoRoom

\* C23: a successful AddClient of a client with room r registers the client under its id,
\* appends to r's log a SystemMessage entry with the new-user text (followed, when the
\* room broadcast finds an active client, by the entry that broadcast logs itself), and
\* writes the text to every active registered client of r, the new one included.
C23_RegisterInRoom ==
    [][ RegisterInRoom
        => LET c == last'.c
               r == RoomID[c]
               active == {x \in Registered \cup {c} : IsActive[x]}
               entries == <<ChatMessage(SystemMessage, NewUserText, r)>>
                          \o (IF active = {} THEN <<>>
                              ELSE <<ChatMessage(TextMessage, NewUserText, r)>>)
           IN /\ ClientID(c) \in DOMAIN clients' /\ clients'[ClientID(c)] = c
              /\ GetMessageHistory([messageLog |-> messageLog'], r)
                    = LastN(GetMessageHistory(St, r) \o entries, maxLogSize)
              /\ last'.calls[1].op = "BroadcastToRoom"
              /\ last'.calls[1].msg = NewUserText
              /\ last'.calls[1].written = {x \in active : RoomID[x] = r}
      ]_vars

\* C23 witness: a client was added to a room that had an active member; the log of the
\* room holds the system entry before the broadcast's own, and both members were written
C23_Witness ==
    /\ last.op = "AddClient" /\ last.ret = "nil" /\ last.c # 0
    /\ RoomID[last.c] # NoRoom
    /\ \E x \in Objs \ {last.c} : {x, last.c} \subseteq last.calls[1].written \ last.calls[1].failed
    /\ LET h == GetMessageHistory(St, RoomID[last.c])
       IN /\ Len(h) >= 2
          /\ h[Len(h) - 1] = ChatMessage(SystemMessage, NewUserText, RoomID[last.c])
          /\ h[Len(h)] = ChatMessage(TextMessage, NewUserText, RoomID[last.c])

\* ---------------------------------------------------------------------------
\* Clear (C24)
\* ---------------------------------------------------------------------------

\* the registry as the state after a step holds it
RegistryAfter == [clients |-> clients', IsActive |-> IsActive']

\* C24: after Clear, Count is 0, GetActiveClients is empty and Get of every identifier
\* returns not-found; an Add that follows a Clear succeeds for any client, whether or
\* not its identifier was registered before, and that client is then the only one
\* registered and counted.
C24_ClearEmptiesTheRegistry ==
    [][ /\ last'.op = "Clear"
           => /\ Count(RegistryAfter) = 0
              /\ GetActiveClients(RegistryAfter) = {}
              /\ \A id \in IDs : Get(RegistryAfter, id) = [client |-> 0, err |-> "ErrClientNotFound"]
              /\ GetAll(RegistryAfter).map = <<>>
        /\ (last.op = "Clear" /\ last'.op = "Add" /\ last'.c # 0)
           => /\ last'.ret = "nil"
              /\ Count(RegistryAfter) = 1
              /\ Get(RegistryAfter, ClientID(last'.c)) = [client |-> last'.c, err |-> "nil"]
      ]_vars

\* C24 witness: the registry was cleared after clients had been created, and holds nothing
C24_Witness ==
    /\ last.op = "Clear"
    /\ Cardinality(Created) = NumClients
    /\ Count(St) = 0 /\ GetActiveClients(St) = {}

\* ---------------------------------------------------------------------------
\* Log first, write second (C25)
\* ---------------------------------------------------------------------------

\* a BroadcastMessage or BroadcastToRoom call of the step that passed validation and
\* wrote to at least one client
FannedOut(k) ==
    /\ k.op \in {"BroadcastMessage", "BroadcastToRoom"}
    /\ k.ret = "nil"
    /\ k.written # {}

\* C25: in every BroadcastMessage or BroadcastToRoom call that passes validation and
\* writes, the log the writes find already holds the call's message as the newest entry
\* of its room (as many entries as the bound allows), so the message is logged before
\* the first write; with a positive bound a written recipient finds it in the history.
C25_LoggedBeforeWritten ==
    [][ \A i \in DOMAIN last'.calls :
          FannedOut(last'.calls[i])
          => LET k == last'.calls[i]
                 h == GetMessageHistory([messageLog |-> k.seen], k.target)
                 entry == ChatMessage(TextMessage, k.msg, k.target)
             IN /\ maxLogSize > 0 => h # <<>> /\ h[Len(h)] = entry
                /\ last'.op = k.op
                   => /\ h = LastN(GetMessageHistory(St, k.target) \o <<entry>>, maxLogSize)
                      /\ k.seen = messageLog'
      ]_vars

\* C25 witness: a room broadcast wrote to two clients, and the log at the time of the
\* writes ended with the broadcast's message
C25_Witness ==
    /\ last.op = "BroadcastToRoom" /\ last.ret = "nil"
    /\ Cardinality(last.calls[1].written \ last.calls[1].failed) >= 2
    /\ LET h == GetMessageHistory([messageLog |-> last.calls[1].seen], last.target)
       IN h # <<>> /\ h[Len(h)].Content = last.msg /\ last.msg \in UserMsgs

\* ---------------------------------------------------------------------------
\* A failed write ends in removal (C26)
\* ---------------------------------------------------------------------------

\* conn.ReadMessage on a transport that handleClientError has closed: the read loop of
\* the connection gets an error and its deferred cleanup runs
ReadOnClosed(c) ==
    /\ conn[c] = "closed"
    /\ \E F \in SUBSET OpenIn(RoomID[c]) : ReadError(c, F)

\* The running server with one room and plain frames: connections arrive with the room
\* or without, broadcast, and end with a read error
NextLoops ==
    \/ \E c \in Conns, r \in {RoomNames[1], NoRoom} : \E F \in SUBSET OpenIn(r) :
          HandleConnection(c, r, F)
    \/ \E c \in Conns, m \in UserMsgs : \E F \in SUBSET Open : ReadText(c, PlainFrame(m), F, {})
    \/ \E c \in Conns : \E F \in SUBSET OpenIn(RoomID[c]) : ReadError(c, F)

\* Read loops that are scheduled: a loop whose transport is closed does not wait in
\* ReadMessage for ever
SpecLoopsFair == Init /\ [][NextLoops]_vars /\ \A c \in Conns : WF_vars(ReadOnClosed(c))

\* a registered connection, still in its read loop, that a failed write has deactivated
FailedAndRegistered(c) ==
    /\ pc[c] = "open"
    /\ ~IsActive[c]
    /\ ClientID(c) \in DOMAIN clients /\ clients[ClientID(c)] = c

\* C26: a registered connection whose write failed is, when its read loop is scheduled,
\* eventually removed from the registry; the failed write itself only deactivates it
\* and closes its transport.
C26_FailedWriteLeadsToRemoval ==
    \A c \in Conns : FailedAndRegistered(c) ~> (ClientID(c) \notin DOMAIN clients)

\* C26 witness: a connection that a failed write had deactivated has left its read loop
\* and is no longer registered
C26_Witness ==
    /\ last.op = "ReadError"
    /\ ~IsActive[last.c] /\ conn[last.c] = "closed" /\ pc[last.c] = "closed"
    /\ ClientID(last.c) \notin DOMAIN clients
    /\ \E x \in Conns \ {last.c} : pc[x] = "open" /\ ClientID(x) \in DOMAIN clients

\* ---------------------------------------------------------------------------
\* The read deadline (C27)
\* ---------------------------------------------------------------------------

\* The pong handler set in HandleConnection: a pong read from the peer moves the read
\* deadline to a full interval from now
Pong(c) ==
    /\ pc[c] = "open" /\ conn[c] = "open"
    /\ readDeadline[c] > 0
    /\ readDeadline' = [readDeadline EXCEPT ![c] = ReadDeadline]
    /\ last' = Op("Pong", c, "", EmptyMsg, St)
    /\ UNCHANGED <<clients, RoomID, IsActive, conn, messageLog, maxLogSize, pc, inserted,
                   threads, held, logCap, sinceFrame, callers>>

\* Time passes by one ping period while no read loop stands at an expired deadline
Tick ==
    /\ \A c \in Conns : pc[c] = "open" => readDeadline[c] > 0
    /\ \E c \in Conns : pc[c] = "open"
    /\ readDeadline' = [c \in Objs |->
           IF pc[c] # "open" THEN readDeadline[c]
           ELSE IF readDeadline[c] > PingPeriod THEN readDeadline[c] - PingPeriod ELSE 0]
    /\ sinceFrame' = [c \in Objs |->
           IF pc[c] # "open" THEN sinceFrame[c]
           ELSE IF sinceFrame[c] + PingPeriod < ReadDeadline THEN sinceFrame[c] + PingPeriod
           ELSE ReadDeadline]
    /\ last' = Op("Tick", 0, "", EmptyMsg, St)
    /\ UNCHANGED <<clients, RoomID, IsActive, conn, messageLog, maxLogSize, pc, inserted,
                   threads, held, logCap, callers>>

\* conn.ReadMessage at an expired read deadline returns a timeout error
ReadTimeout(c) ==
    /\ readDeadline[c] = 0
    /\ \E F \in SUBSET OpenIn(RoomID[c]) : ReadError(c, F)

\* Connections without a room whose peers send plain frames and pongs, or neither, as
\* time passes
NextDeadline ==
    \/ \E c \in Conns : HandleConnection(c, NoRoom, {})
    \/ \E c \in Conns, m \in UserMsgs : readDeadline[c] > 0 /\ ReadText(c, PlainFrame(m), {}, {})
    \/ \E c \in Conns : Pong(c)
    \/ Tick
    \/ \E c \in Conns : ReadTimeout(c)

SpecDeadline == Init /\ [][NextDeadline]_vars

\* C27: every frame read from a connection moves its read deadline to a full interval
\* from then, so a read loop that ends on an expired read deadline belongs to a
\* connection from which no frame was read for a whole deadline interval.
C27_FramesRefreshTheDeadline ==
    [][ /\ last'.op = "ReadText" => readDeadline'[last'.c] = ReadDeadline
        /\ (last'.op = "ReadError" /\ readDeadline[last'.c] = 0)
           => sinceFrame[last'.c] >= ReadDeadline
      ]_vars

\* ---------------------------------------------------------------------------
\* A recipient that never accepts data (C28)
\* ---------------------------------------------------------------------------

\* The peer stops reading: the transport takes no more data, and a write to it waits.
\* client.Conn.WriteMessage is called with no write deadline set, so the wait has no end
\* of its own; only closing the transport ends it.
Stall(x) ==
    /\ pc[x] = "open" /\ conn[x] = "open"
    /\ conn' = [conn EXCEPT ![x] = "stalled"]
    /\ UNCHANGED <<clients, RoomID, IsActive, messageLog, maxLogSize, pc, last, inserted,
                   threads, held, logCap, readDeadline, sinceFrame, callers>>

\* logMessage as one step
LogAtOnce(g) ==
    /\ threads[g].at = "exists"
    /\ messageLog' = logMessage(St, threads[g].msg).messageLog
    /\ Step(g, "fanout")
    /\ UNCHANGED <<clients, RoomID, IsActive, conn, maxLogSize, pc, last, inserted, held,
                   logCap, readDeadline, sinceFrame, callers>>

\* client.Conn.WriteMessage returns: at once on an open transport, with an error on a
\* closed one, not at all on one that takes no data
WriteReturns(g) ==
    /\ threads[g].at = "write"
    /\ conn[threads[g].writing] # "stalled"
    /\ EndWrite(g, {})

\* The read loop of a connection whose peer has stopped ends on its read deadline (no
\* pong comes back), and the deferred cleanup starts: with a room, BroadcastToRoom of
\* the leave notification, which logs and then writes to the active clients of the
\* room, the leaving one included
ReadTimeoutStalled(x) ==
    /\ pc[x] = "open" /\ conn[x] = "stalled"
    /\ threads[x].at = "read"
    /\ pc' = [pc EXCEPT ![x] = "closing"]
    /\ LET active == GetActiveClients(St)
           msg == ChatMessage(TextMessage, LeftMsg(x), RoomID[x])
       IN IF RoomID[x] = NoRoom \/ active = {}
          THEN UNCHANGED <<threads, inserted, callers>>
          ELSE /\ threads' = [threads EXCEPT ![x] =
                                 [at |-> "exists", msg |-> msg, tmp |-> <<>>,
                                  todo |-> {y \in active : RoomID[y] = RoomID[x]},
                                  writing |-> 0, sent |-> @.sent]]
               /\ inserted' = Append(inserted, msg)
    /\ UNCHANGED <<clients, RoomID, IsActive, conn, messageLog, maxLogSize, last, held,
                   logCap, readDeadline, sinceFrame, callers>>

\* The rest of the deferred cleanup: RemoveClient and conn.Close
CleanupFinish(x) ==
    /\ pc[x] = "closing"
    /\ threads[x].at = "read"
    /\ LET t == ConnClose(RemoveClient(St, ClientID(x)), x)
       IN Commit(t) /\ last' = Op("ReadError", x, "", EmptyMsg, t)
    /\ pc' = [pc EXCEPT ![x] = "closed"]
    /\ UNCHANGED <<inserted, threads, held, logCap, readDeadline, sinceFrame, callers>>

\* what the goroutine of a connection's handler does next once it can
Goroutine(g) ==
    \/ LogAtOnce(g)
    \/ \E x \in Conns : BeginWrite(g, x)
    \/ WriteReturns(g)
    \/ EndBroadcast(g)
    \/ ReadTimeoutStalled(g)
    \/ CleanupFinish(g)

NextStall ==
    \/ \E c \in Conns, r \in {NoRoom, RoomNames[1]} : Arrive(c, r)
    \/ \E x \in Conns : Stall(x)
    \/ \E g \in Conns : StartBroadcast(g)
    \/ \E g \in Conns : LogAtOnce(g)
    \/ \E g \in Conns, x \in Conns : BeginWrite(g, x)
    \/ \E g \in Conns : WriteReturns(g)
    \/ \E g \in Conns : EndBroadcast(g)
    \/ \E x \in Conns : ReadTimeoutStalled(x)
    \/ \E x \in Conns : CleanupFinish(x)

\* Every goroutine is scheduled, and the read deadline of a stalled peer expires
SpecStall == Init /\ [][NextStall]_vars /\ \A g \in Conns : WF_vars(Goroutine(g))

\* C28: a write to a recipient whose transport never accepts data eventually returns
\* (a write deadline ends it), and the fan-out it belongs to comes to its end.
C28_StalledWriteEnds ==
    \A g \in Conns :
       /\ (threads[g].at = "write") ~> (threads[g].at # "write")
       /\ (threads[g].at \in {"fanout", "write"}) ~> (threads[g].at = "read")

\* ---------------------------------------------------------------------------
\* The registry under concurrent callers (C29)
\* ---------------------------------------------------------------------------

\* the callers inside r.mutex.Lock() ... Unlock(), and inside RLock() ... RUnlock()
Writers == {h \in Objs : callers[h].at \in {"add_check", "add_store"}}
Readers == {h \in Objs : callers[h].at = "count_len"}

\* a variant of the lock that lets every caller in
LockOpen(g) == TRUE

\* r.mutex.Lock() returns when no other caller holds the lock in either mode
Lock(g) == (Writers \cup Readers) \ {g} = {}

\* r.mutex.RLock() returns when no writer holds the lock
RLock(g) == Writers \ {g} = {}

\* Add(client) of caller g, for the client object g: the lock is taken
AddLock(g) ==
    /\ callers[g].at = "idle" /\ callers[g].ret = "none"
    /\ Lock(g)
    /\ callers' = [callers EXCEPT ![g].at = "add_check"]
    /\ UNCHANGED <<clients, RoomID, IsActive, conn, messageLog, maxLogSize, pc, last,
                   inserted, threads, held, logCap, readDeadline, sinceFrame>>

\* if _, exists := r.clients[client.ID]; exists { return ErrClientExists }
AddCheck(g) ==
    /\ callers[g].at = "add_check"
    /\ callers' = [callers EXCEPT ![g] =
                      IF ClientID(g) \in DOMAIN clients
                      THEN [@ EXCEPT !.at = "idle", !.ret = "ErrClientExists"]
                      ELSE [@ EXCEPT !.at = "add_store"]]
    /\ UNCHANGED <<clients, RoomID, IsActive, conn, messageLog, maxLogSize, pc, last,
                   inserted, threads, held, logCap, readDeadline, sinceFrame>>

\* r.clients[client.ID] = client; return nil
AddStore(g) ==
    /\ callers[g].at = "add_store"
    /\ clients' = MapStore(clients, ClientID(g), g)
    /\ callers' = [callers EXCEPT ![g].at = "idle", ![g].ret = "nil"]
    /\ UNCHANGED <<RoomID, IsActive, conn, messageLog, maxLogSize, pc, last,
                   inserted, threads, held, logCap, readDeadline, sinceFrame>>

\* Count() of caller g: the read lock is taken
CountRLock(g) ==
    /\ callers[g].at = "idle"
    /\ RLock(g)
    /\ callers' = [callers EXCEPT ![g].at = "count_len"]
    /\ UNCHANGED <<clients, RoomID, IsActive, conn, messageLog, maxLogSize, pc, last,
                   inserted, threads, held, logCap, readDeadline, sinceFrame>>

\* return len(r.clients)
CountLen(g) ==
    /\ callers[g].at = "count_len"
    /\ callers' = [callers EXCEPT ![g].at = "idle", ![g].seen = Count(St)]
    /\ UNCHANGED <<clients, RoomID, IsActive, conn, messageLog, maxLogSize, pc, last,
                   inserted, threads, held, logCap, readDeadline, sinceFrame>>

\* Every caller adds its own client object once and calls Count as often as it likes
NextRegistry ==
    \/ \E g \in Objs : AddLock(g)
    \/ \E g \in Objs : AddCheck(g)
    \/ \E g \in Objs : AddStore(g)
    \/ \E g \in Objs : CountRLock(g)
    \/ \E g \in Objs : CountLen(g)

SpecRegistry == Init /\ [][NextRegistry]_vars

\* the callers whose Add has returned nil
Added(cs) == {h \in Objs : cs[h].ret = "nil"}

\* C29: a caller inside Add excludes every other caller from the registry; of the
\* callers that add clients with one identifier exactly one gets nil and every other
\* ErrClientExists; and the value Count returns is the number of Adds that have
\* succeeded when it reads, with no Add half done.
C29_RegistryCallsAreSerial ==
    [][ /\ \A g \in Objs : callers'[g].at \in {"add_check", "add_store"}
                           => \A h \in Objs \ {g} : callers'[h].at = "idle"
        /\ \A g \in Objs, h \in Objs :
              (g # h /\ ClientID(g) = ClientID(h)
               /\ callers'[g].ret # "none" /\ callers'[h].ret # "none")
              => {callers'[g].ret, callers'[h].ret} = {"nil", "ErrClientExists"}
        /\ \A g \in Objs :
              (callers[g].at = "count_len" /\ callers'[g].at = "idle")
              => /\ callers'[g].seen = Cardinality(Added(callers))
                 /\ \A h \in Objs : callers[h].at \notin {"add_check", "add_store"}
      ]_vars

\* C29 witness: two callers have added clients with the same identifier, one got nil
\* and the other ErrClientExists, and a third caller's Count returned 1 in between
C29_Witness ==
    \E g \in Objs, h \in Objs, k \in Objs :
       /\ g # h /\ ClientID(g) = ClientID(h)
       /\ callers[g].ret = "nil" /\ callers[h].ret = "ErrClientExists"
       /\ k \notin {g, h} /\ callers[k].seen = 1 /\ callers[k].ret = "none"

\* ---------------------------------------------------------------------------
\* A refused registration (C30)
\* ---------------------------------------------------------------------------

\* The server with connections whose AddClient can be refused: the third client object
\* carries the identifier of the first, and AddClient is also called with nil
NextAccept ==
    \/ \E c \in Objs, r \in {NoRoom, RoomNames[1]} : \E F \in SUBSET OpenIn(r) :
          HandleConnection(c, r, F)
    \/ \E c \in Objs, m \in UserMsgs : \E F \in SUBSET Open : ReadText(c, PlainFrame(m), F, {})
    \/ \E c \in Objs : \E F \in SUBSET OpenIn(RoomID[c]) : ReadError(c, F)
    \/ CallAddClient(0, {})

SpecAccept == InitRooms /\ [][NextAccept]_vars

\* a step in which AddClient refused a client
Refused ==
    /\ last'.op \in {"HandleConnection", "AddClient"}
    /\ last'.calls # <<>>
    /\ last'.calls[1].op = "AddClient"
    /\ last'.calls[1].ret \in {"ErrNilClient", "ErrClientExists"}

\* C30: when AddClient fails (nil client, or identifier already registered) no log
\* changes and nothing is written to anyone; the handler closes the new transport,
\* starts no read loop and makes no cleanup call; the registry is unchanged and every
\* other connection, the holder of the identifier included, keeps its registration,
\* active flag, room, transport and read loop.
C30_RefusedRegistration ==
    [][ Refused
        => /\ messageLog' = messageLog
           /\ \A i \in DOMAIN last'.calls : last'.calls[i].written = {}
           /\ Len(last'.calls) = 1 /\ last'.calls[1].op = "AddClient"
           /\ clients' = clients
           /\ \A x \in Objs \ {last'.c} :
                 Standing(clients', IsActive', RoomID', conn', pc', x)
                    = Standing(clients, IsActive, RoomID, conn, pc, x)
           /\ last'.op = "HandleConnection"
              => /\ pc'[last'.c] = "closed" /\ conn'[last'.c] = "closed"
                 /\ clients[ClientID(last'.c)] # last'.c
      ]_vars

\* C30 witness: a connection was refused because its identifier is held by a connection
\* in a room with a log; the new transport is closed, and the holder is still
\* registered, active, open and in its read loop
C30_Witness ==
    /\ last.op = "HandleConnection" /\ last.ret = "ErrClientExists"
    /\ pc[last.c] = "closed" /\ conn[last.c] = "closed"
    /\ LET x == clients[ClientID(last.c)]
       IN /\ x # last.c
          /\ IsActive[x] /\ conn[x] = "open" /\ pc[x] = "open"
          /\ RoomID[x] = RoomID[last.c] /\ RoomID[x] # NoRoom
          /\ GetMessageHistory(St, RoomID[x]) # <<>>

\* ---------------------------------------------------------------------------
\* Registration without a room (C31)
\* ---------------------------------------------------------------------------

\* a successful AddClient of a client whose RoomID is empty
RegisterWithoutRoom ==
    /\ last'.op = "AddClient" /\ last'.calls # <<>>
    /\ last'.calls[Len(last'.calls)].ret = "nil"
    /\ last'.c # 0 /\ RoomID[last'.c] = NoRoom

C32_ActiveAndRoomMembers ==
    /\ GetActiveClients(St) = {c \in Objs : c \in Registered /\ IsActive[c]}
    /\ \A r \in Rooms \cup {NoRoom} :
          GetClientsInRoom(St, r) = {c \in Objs : c \in Registered /\ IsActive[c] /\ RoomID[c] = r}
    /\ \A r1 \in Rooms \cup {NoRoom}, r2 \in Rooms \cup {NoRoom} :
          r1 # r2 => GetClientsInRoom(St, r1) \cap GetClientsInRoom(St, r2) = {}

\* C32 witness: a room has a registered client that a failed write has deactivated and
\* an active one, and only the active one is returned
C32_Witness ==
    \E r \in Rooms : \E x \in Registered, y \in Registered :
       /\ RoomID[x] = r /\ RoomID[y] = r
       /\ ~IsActive[x] /\ IsActive[y]
       /\ GetClientsInRoom(St, r) = {y}
       /\ GetActiveClients(St) = {y}

\* ---------------------------------------------------------------------------
\* Frames that are no control message (C33)
\* ---------------------------------------------------------------------------

\* Text frames that processTextMessage does not route to a handler: text that is no
\* JSON object, an envelope without a type, one with a type it does not know, and
\* join_room and private envelopes with an empty target
OtherFrames ==
    {PlainFrame(m) : m \in UserMsgs}
    \cup {JsonFrame("", "", m) : m \in UserMsgs}
    \cup {JsonFrame("chat", RoomNames[1], m) : m \in UserMsgs}
    \cup {JsonFrame("join_room", "", "")}
    \cup {JsonFrame("private", "", m) : m \in UserMsgs}

\* The running server with one room, whose peers send such frames, join and leave
NextFrames ==
    \/ \E c \in Conns, r \in {NoRoom, RoomNames[1]} : HandleConnection(c, r, {})
    \/ \E c \in Conns, frame \in OtherFrames : \E F \in SUBSET Open : ReadText(c, frame, F, {})
    \/ \E c \in Conns, frame \in RoomFrames : ReadText(c, frame, {}, {})
    \/ \E c \in Conns : ReadError(c, {})

SpecFrames == Init /\ [][NextFrames]_vars

\* a frame of OtherFrames was read
OtherRead == last'.op = "ReadText" /\ last'.msg \in {f.raw : f \in OtherFrames}

\* C33: a text frame that is no recognized control message (no JSON object, no type, an
\* unknown type, or join_room or private with an empty target) makes exactly one
\* broadcast, of the frame's bytes as they came, to the sender's room when it has one
\* and to everyone otherwise, and leaves the sender's room and the registry unchanged.
C33_OtherFramesArePlainChat ==
    [][ OtherRead
        => LET c == last'.c IN
           /\ Len(last'.calls) = 1
           /\ last'.calls[1].msg = last'.msg
           /\ IF RoomID[c] # NoRoom
              THEN last'.calls[1].op = "BroadcastToRoom" /\ last'.calls[1].target = RoomID[c]
              ELSE last'.calls[1].op = "BroadcastMessage"
           /\ RoomID' = RoomID
           /\ clients' = clients
      ]_vars

\* C33 witness: a join_room envelope with an empty target was read from a connection in
\* a room and written, bytes unchanged, to both members of the room
C33_Witness ==
    /\ last.op = "ReadText"
    /\ last.msg = JsonFrame("join_room", "", "").raw
    /\ RoomID[last.c] # NoRoom
    /\ last.calls[1].op = "BroadcastToRoom" /\ last.calls[1].ret = "nil"
    /\ last.calls[1].msg = last.msg
    /\ \E x \in Conns \ {last.c} : {x, last.c} \subseteq last.calls[1].written \ last.calls[1].failed

\* ---------------------------------------------------------------------------
\* Histories by room (C34)
\* ---------------------------------------------------------------------------

\* the entries of a history
Entries(h) == {h[i] : i \in DOMAIN h}

\* C34: GetMessageHistory(r) of a room r holds only entries whose RoomID is r, for
\* every room name, the name "global" included; GetMessageHistory("") holds only
\* entries without a RoomID; and a room nothing was logged for has the empty history.
C34_HistoriesArePartitioned ==
    /\ \A r \in Rooms : \A e \in Entries(GetMessageHistory(St, r)) : e.RoomID = r
    /\ \A e \in Entries(GetMessageHistory(St, NoRoom)) : e.RoomID = NoRoom
    /\ \A r \in Rooms : LogKey(r) \notin DOMAIN messageLog => GetMessageHistory(St, r) = <<>>

\* ---------------------------------------------------------------------------
\* The checks of SendPrivateMessage, in order (C35)
\* ---------------------------------------------------------------------------

\* C35: SendPrivateMessage returns ErrEmptyMessage for an empty message whether or not
\* the target is registered; for a message that is not empty and an unregistered target
\* it returns the registry's ErrClientNotFound; both change nothing. When the write to a
\* registered active target fails, the target is deactivated, its transport closed,
\* the error handed to errorHandler once, the target stays registered, and the write
\* error is returned.
C35_SendPrivateMessageChecks ==
    [][ last'.op = "SendPrivateMessage"
        => /\ last'.msg = EmptyMsg
              => last'.ret = "ErrEmptyMessage" /\ NothingChanged
           /\ (last'.msg # EmptyMsg /\ last'.target \notin DOMAIN clients)
              => last'.ret = "ErrClientNotFound" /\ NothingChanged
           /\ (last'.msg # EmptyMsg /\ last'.target \in DOMAIN clients
               /\ FailedIn(last') # {})
              => LET x == clients[last'.target] IN
                 /\ IsActive[x]
                 /\ FailedIn(last') = {x}
                 /\ last'.ret = "WriteError"
                 /\ ~IsActive'[x] /\ conn'[x] = "closed"
                 /\ last'.reported = SetToBag({WriteErrorOf(x)})
                 /\ clients' = clients
                 /\ messageLog' = messageLog
      ]_vars

\* C35 witness: the write of a private message to a registered, active target with an
\* open transport failed; the target is deactivated and closed and the error returned
C35_Witness ==
    /\ last.op = "SendPrivateMessage" /\ last.ret = "WriteError"
    /\ last.msg \in UserMsgs
    /\ last.target \in DOMAIN clients
    /\ FailedIn(last) = {clients[last.target]}
    /\ ~IsActive[clients[last.target]] /\ conn[clients[last.target]] = "closed"
    /\ BagCardinality(last.reported) = 1

\* ---------------------------------------------------------------------------
\* IsActive never comes back (C36)
\* ---------------------------------------------------------------------------

\* C36: a client is active when it is created, and once IsActive is false no step of
\* the handler, the service or the registry makes it true again.
C36_InactiveStaysInactive ==
    [][ \A c \in Objs :
          /\ (conn[c] # "none" /\ ~IsActive[c]) => ~IsActive'[c]
          /\ (conn[c] = "none" /\ conn'[c] # "none")
             => IsActive'[c]
      ]_vars

\* C36 witness: a frame was read from a connection that a failed write had deactivated
\* before, and the connection is still inactive after the read
C36_Witness ==
    /\ last.op = "ReadText"
    /\ last.c \notin FailedIn(last)
    /\ ~IsActive[last.c]
    /\ last.c \in last.touched
    /\ ClientID(last.c) \in DOMAIN clients

\* ---------------------------------------------------------------------------
\* Whom an interleaved broadcast writes to (C37)
\* ---------------------------------------------------------------------------

\* the step in which the broadcast of read loop g enters client.Conn.WriteMessage
EntersWrite(g) == threads[g].at = "fanout" /\ threads'[g].at = "write"

C38_InactiveIsClosed ==
    \A c \in Registered : ~IsActive[c] => conn[c] = "closed"

\* C38 witness: a write of a fan-out has just failed on a registered client, which is
\* now inactive, closed and still registered
C38_Witness ==
    /\ last.op = "ReadText"
    /\ \E c \in FailedIn(last) \cap Registered :
          /\ c # last.c
          /\ ~IsActive[c]
          /\ conn[c] = "closed"
          /\ c \in last.touched

\* ---------------------------------------------------------------------------
\* The room is told before the leaving client is unregistered (C39)
\* ---------------------------------------------------------------------------

\* the other registered, active clients of c's room
Peers(c) == {d \in Registered \ {c} : IsActive[d] /\ RoomID[d] = RoomID[c]}

\* C39: when the read loop of a client c of room r ends while another active client d is
\* in r, the cleanup first broadcasts the "left" notification to r, writing it to d and,
\* if c is still active, to c itself, and only then removes c from the registry; this is
\* so also when the write to c's own transport fails.
C39_PeersAreToldBeforeRemoval ==
    [][ (last'.op = "ReadError" /\ RoomID[last'.c] # NoRoom /\ Peers(last'.c) # {})
        => LET c == last'.c
               k == last'.calls
           IN /\ Len(k) = 2
              /\ k[1].op = "BroadcastToRoom"
              /\ k[1].target = RoomID[c]
              /\ k[1].msg = LeftMsg(c)
              /\ Peers(c) \subseteq k[1].written
              /\ (c \in Registered /\ IsActive[c]) => c \in k[1].written
              /\ k[1].failed \subseteq k[1].written
              /\ k[2].op = "RemoveClient"
              /\ k[2].target = ClientID(c)
              /\ k[2].written = {}
              /\ ClientID(c) \notin DOMAIN clients'
      ]_vars

\* C39 witness: a cleanup in which the write to the leaving client failed and the write
\* to its peer succeeded, the leaving client being unregistered afterwards
C39_Witness ==
    /\ last.op = "ReadError"
    /\ Len(last.calls) = 2
    /\ last.calls[1].op = "BroadcastToRoom"
    /\ last.c \in last.calls[1].failed
    /\ \E d \in last.calls[1].written \ last.calls[1].failed :
          d # last.c /\ IsActive[d] /\ RoomID[d] = RoomID[last.c] /\ d \in Registered
    /\ last.calls[2].op = "RemoveClient"
    /\ ClientID(last.c) \notin DOMAIN clients

====
